---- MODULE Spec2Model ----
(***************************************************************************)
(* A model of the SPIR-V IR layer of sabre-go: the module's object table   *)
(* and interning maps, lowering of functions into basic blocks, the three  *)
(* rewrite passes and the command pipeline that drives them.               *)
(*                                                                         *)
(* Go pointers are modelled as addresses into `heap` (a sequence that only *)
(* grows: the garbage collector keeps every object somebody still points   *)
(* to).  Address 0 is nil.  Go strings are sequences of one-character      *)
(* strings, so that string concatenation is sequence concatenation.        *)
(***************************************************************************)
EXTENDS Integers, Sequences, FiniteSets, TLC

VARIABLES module, heap, ret, abort, lastOp, internLog,
          unit, pc, errors, semanticInfo, emitted, blockStack, entryOf, lowered,
          varsBefore, removedBlocks, serialized, checker, printed, selector, interner, dom

\* ------------------------------------------------------------------------
\* Bounds of the model
\* ------------------------------------------------------------------------

\* cap on the ID counter in the object-table specification
MaxID == 2

\* most IDs one RemoveObjects call is given
MaxRemove == 1

\* most declarations of a compiled file
MaxDecls == 2

\* most declarations and statements of a compiled file, taken together
MaxNodes == 5

\* ------------------------------------------------------------------------
\* Strings
\* ------------------------------------------------------------------------

Digits == <<"0", "1", "2", "3", "4", "5", "6", "7", "8", "9">>

RECURSIVE Itoa(_)
Itoa(n) ==
    IF n < 0 THEN <<"-">> \o Itoa(0 - n)
    ELSE IF n < 10 THEN <<Digits[n + 1]>>
    ELSE Itoa(n \div 10) \o <<Digits[(n % 10) + 1]>>

\* ------------------------------------------------------------------------
\* Objects
\* ------------------------------------------------------------------------

TypeKinds == {"VoidType", "BoolType", "IntType", "FloatType", "PtrType", "FuncType"}
ConstantKinds == {"BoolConstant", "IntConstant", "FloatConstant"}

\* the zero value of an object; every object is this record with the fields
\* of its Go struct filled in
BaseObject ==
    [kind |-> "", ObjectID |-> 0, ObjectName |-> <<>>,
     BitWidth |-> 0, IsSigned |-> FALSE, To |-> 0, StorageClass |-> 0,
     ReturnType |-> 0, ArgTypes |-> <<>>, Type |-> 0, Value |-> 0,
     Params |-> <<>>, Blocks |-> <<>>, Function |-> 0, Instructions |-> <<>>]

StorageClassPrivate == 6
StorageClassFunction == 7
CapabilityShader == 1
CapabilityLinkage == 5
AddressingModelLogical == 0
MemoryModelGLSL450 == 1
FunctionControlNone == 0

RECURSIVE HashKey(_, _)
RECURSIVE ArgKeys(_, _, _)
ArgKeys(h, args, i) ==
    IF i > Len(args) THEN <<>>
    ELSE (IF i > 1 THEN <<",">> ELSE <<>>) \o HashKey(h, h[args[i]]) \o ArgKeys(h, args, i + 1)

HashKey(h, t) ==
    CASE t.kind = "VoidType" -> <<"v", "o", "i", "d">>
      [] t.kind = "BoolType" -> <<"b", "o", "o", "l">>
      [] t.kind = "IntType" ->
            (IF t.IsSigned THEN <<"i", "n", "t">> ELSE <<"u", "i", "n", "t">>) \o Itoa(t.BitWidth)
      [] t.kind = "FloatType" -> <<"f", "l", "o", "a", "t">> \o Itoa(t.BitWidth)
      [] t.kind = "PtrType" ->
            <<"p", "t", "r", "(">> \o HashKey(h, h[t.To]) \o <<",">> \o Itoa(t.StorageClass) \o <<")">>
      [] t.kind = "FuncType" ->
            <<"f", "u", "n", "c", "(">> \o ArgKeys(h, t.ArgTypes, 1) \o <<")">> \o HashKey(h, h[t.ReturnType])
      [] OTHER -> <<>>

\* fmt.Sprintf("const_%v_%v", t.HashKey(), value)
ConstKey(h, t, valueText) ==
    <<"c", "o", "n", "s", "t", "_">> \o HashKey(h, h[t]) \o <<"_">> \o valueText

BoolText(b) == IF b THEN <<"t", "r", "u", "e">> ELSE <<"f", "a", "l", "s", "e">>

\* ------------------------------------------------------------------------
\* The world an operation runs in: the module, the heap, the value the
\* operation returned and the panic that ended it (if any).
\* ------------------------------------------------------------------------

\* sequencing: the outcome of a step is handed to the rest of the function
Then(x, rest(_)) == rest(x)

Put(map, k, v) == [x \in (DOMAIN map) \cup {k} |-> IF x = k THEN v ELSE map[x]]

EmptyMap == [x \in {} |-> 0]

Range(s) == {s[i] : i \in 1..Len(s)}

NewModule ==
    [idGenerator |-> 0, Objects |-> <<>>, objectsByID |-> EmptyMap,
     typesByKey |-> EmptyMap, constantsByKey |-> EmptyMap, capabilities |-> <<>>,
     AddressingModel |-> AddressingModelLogical, MemoryModel |-> MemoryModelGLSL450]

Panic(w, msg) == [w EXCEPT !.abort = msg]

\* a NewID that derives the ID from the number of live objects
NewID_FromLength(w) == [w EXCEPT !.module.idGenerator = Len(w.module.Objects) + 1]

NewID(w) == [w EXCEPT !.module.idGenerator = @ + 1]

\* the object an ID names, as an address; 0 when there is none
GetObject(m, id) ==
    IF id \in DOMAIN m.objectsByID THEN m.Objects[m.objectsByID[id] + 1] ELSE 0

\* an addObject that forgets to record types in typesByKey
addObject_NoTypeKey(w, obj) ==
    LET addr == Len(w.heap) + 1
        index == Len(w.module.Objects)
    IN [w EXCEPT !.heap = Append(w.heap, obj),
                 !.module.objectsByID = Put(@, obj.ObjectID, index),
                 !.module.constantsByKey =
                     IF obj.kind \in ConstantKinds THEN Put(@, obj.ObjectName, index) ELSE @,
                 !.module.Objects = Append(@, addr),
                 !.ret = addr]

\* allocate obj on the heap and add it to the module
addObject(w, obj) ==
    LET addr == Len(w.heap) + 1
        h == Append(w.heap, obj)
        index == Len(w.module.Objects)
        tk == IF obj.kind \in TypeKinds
              THEN Put(w.module.typesByKey, HashKey(h, obj), index)
              ELSE w.module.typesByKey
        ck == IF obj.kind \in ConstantKinds
              THEN Put(w.module.constantsByKey, obj.ObjectName, index)
              ELSE w.module.constantsByKey
    IN [w EXCEPT !.heap = h,
                 !.module.objectsByID = Put(@, obj.ObjectID, index),
                 !.module.typesByKey = tk,
                 !.module.constantsByKey = ck,
                 !.module.Objects = Append(@, addr),
                 !.ret = addr]

\* slices.DeleteFunc(m.Objects, obj == nil)
RECURSIVE DeleteNil(_)
DeleteNil(s) ==
    IF s = <<>> THEN <<>>
    ELSE IF Head(s) = 0 THEN DeleteNil(Tail(s))
    ELSE <<Head(s)>> \o DeleteNil(Tail(s))

\* m.Objects[m.objectsByID[id]] = nil; a missing key reads as index 0
NilIndexes(m, ids) ==
    {(IF id \in DOMAIN m.objectsByID THEN m.objectsByID[id] ELSE 0) + 1 : id \in ids}

RebuildIndex(h, objs) ==
    [id \in {h[objs[i]].ObjectID : i \in 1..Len(objs)} |->
        (CHOOSE i \in 1..Len(objs) :
            /\ h[objs[i]].ObjectID = id
            /\ \A j \in 1..Len(objs) : h[objs[j]].ObjectID = id => j <= i) - 1]

\* a RemoveObjects that leaves objectsByID as it was
RemoveObjects_StaleIndex(w, ids) ==
    LET m == w.module
        nil == NilIndexes(m, ids)
    IN IF w.abort # "" THEN w
       ELSE IF \E i \in nil : i > Len(m.Objects) THEN Panic(w, "index out of range")
       ELSE [w EXCEPT !.module.Objects = DeleteNil([i \in 1..Len(m.Objects) |->
                                                      IF i \in nil THEN 0 ELSE m.Objects[i]]),
                      !.ret = 0]

RemoveObjects(w, ids) ==
    LET m == w.module
        nil == NilIndexes(m, ids)
    IN IF w.abort # "" THEN w
       ELSE IF \E i \in nil : i > Len(m.Objects) THEN Panic(w, "index out of range")
       ELSE LET objs == DeleteNil([i \in 1..Len(m.Objects) |->
                                      IF i \in nil THEN 0 ELSE m.Objects[i]])
            IN [w EXCEPT !.module.Objects = objs,
                         !.module.objectsByID = RebuildIndex(w.heap, objs),
                         !.ret = 0]

\* NewFuncParam, NewFunction, NewVariable, NewNamedValue, Function.NewBlock:
\* a fresh ID, then addObject
NewObject(w, obj) ==
    IF w.abort # "" THEN w
    ELSE LET w1 == NewID(w)
         IN addObject(w1, [obj EXCEPT !.ObjectID = w1.module.idGenerator])

NewFuncParam(w, paramType) ==
    NewObject(w, [BaseObject EXCEPT !.kind = "FuncParam", !.Type = paramType])

NewFunction(w, functionType, params) ==
    NewObject(w, [BaseObject EXCEPT !.kind = "Function", !.Type = functionType, !.Params = params])

NewVariable(w, ptrType, sc) ==
    NewObject(w, [BaseObject EXCEPT !.kind = "Variable", !.Type = ptrType, !.StorageClass = sc])

NewValue(w, valueType) ==
    NewObject(w, [BaseObject EXCEPT !.kind = "RuntimeValue", !.Type = valueType])

NewBlock(w, f) ==
    IF w.abort # "" THEN w
    ELSE LET w1 == NewID(w)
             b == Len(w.heap) + 1
             w2 == [w1 EXCEPT !.heap[f].Blocks = Append(@, b)]
         IN addObject(w2, [BaseObject EXCEPT !.kind = "Block", !.Function = f,
                                             !.ObjectID = w1.module.idGenerator])

\* the lookup half of every Intern*: m.Objects[index].(*T)
Interned(w, table, key, kind) ==
    LET index == table[key]
    IN IF index >= Len(w.module.Objects) THEN Panic(w, "index out of range")
       ELSE IF w.heap[w.module.Objects[index + 1]].kind # kind
            THEN Panic(w, "interface conversion")
       ELSE [w EXCEPT !.ret = w.module.Objects[index + 1]]

\* InternVoid, InternBool, InternInt, InternFloat, InternPtr, InternFunc
InternType(w, t) ==
    LET key == HashKey(w.heap, t)
    IN IF w.abort # "" THEN w
       ELSE IF key \in DOMAIN w.module.typesByKey
            THEN Interned(w, w.module.typesByKey, key, t.kind)
       ELSE LET w1 == NewID(w)
            IN addObject(w1, [t EXCEPT !.ObjectID = w1.module.idGenerator, !.ObjectName = key])

InternVoid(w) == InternType(w, [BaseObject EXCEPT !.kind = "VoidType"])
InternBool(w) == InternType(w, [BaseObject EXCEPT !.kind = "BoolType"])
InternInt(w, bitWidth, isSigned) ==
    InternType(w, [BaseObject EXCEPT !.kind = "IntType", !.BitWidth = bitWidth, !.IsSigned = isSigned])
InternFloat(w, bitWidth) ==
    InternType(w, [BaseObject EXCEPT !.kind = "FloatType", !.BitWidth = bitWidth])
InternPtr(w, to, sc) ==
    InternType(w, [BaseObject EXCEPT !.kind = "PtrType", !.To = to, !.StorageClass = sc])
InternFunc(w, returnType, args) ==
    InternType(w, [BaseObject EXCEPT !.kind = "FuncType", !.ReturnType = returnType, !.ArgTypes = args])

\* InternBoolConstant, InternIntConstant
InternConstant(w, kind, value, valueText, t) ==
    LET key == ConstKey(w.heap, t, valueText)
    IN IF w.abort # "" THEN w
       ELSE IF key \in DOMAIN w.module.constantsByKey
            THEN Interned(w, w.module.constantsByKey, key, kind)
       ELSE LET w1 == NewID(w)
            IN addObject(w1, [BaseObject EXCEPT !.kind = kind, !.ObjectID = w1.module.idGenerator,
                                                !.ObjectName = key, !.Type = t, !.Value = value])

InternBoolConstant(w, value, t) ==
    InternConstant(w, "BoolConstant", IF value THEN 1 ELSE 0, BoolText(value), t)
InternIntConstant(w, value, t) ==
    InternConstant(w, "IntConstant", value, Itoa(value), t)

\* ------------------------------------------------------------------------
\* Blocks, instructions and the control-flow graph
\* ------------------------------------------------------------------------

\* an instruction: its opcode and its ID operands in field order
Ins(op, ids) == [op |-> op, ids |-> ids]

TerminatorOpcodes ==
    {"OpReturn", "OpReturnValue", "OpBranch", "OpBranchConditional", "OpSwitch", "OpUnreachable"}

IsTerminator(op) == op \in TerminatorOpcodes

Push(w, b, instr) == [w EXCEPT !.heap[b].Instructions = Append(@, instr)]

IsTerminated(h, b) ==
    IF Len(h[b].Instructions) = 0 THEN FALSE
    ELSE IsTerminator(h[b].Instructions[Len(h[b].Instructions)].op)

\* an Instruction.SuccessorIDs that forgets the false label of a conditional branch
SuccessorIDs_TrueLabel(ins) ==
    CASE ins.op = "OpSelectionMerge" -> <<ins.ids[1]>>
      [] ins.op = "OpBranchConditional" -> <<ins.ids[2]>>
      [] ins.op = "OpBranch" -> <<ins.ids[1]>>
      [] OTHER -> <<>>

\* Instruction.SuccessorIDs
SuccessorIDs(ins) ==
    CASE ins.op = "OpSelectionMerge" -> <<ins.ids[1]>>
      [] ins.op = "OpBranchConditional" -> <<ins.ids[2], ins.ids[3]>>
      [] ins.op = "OpBranch" -> <<ins.ids[1]>>
      [] ins.op = "OpLoopMerge" -> <<ins.ids[1], ins.ids[2]>>
      [] ins.op = "OpSwitch" -> SubSeq(ins.ids, 2, Len(ins.ids))
      [] OTHER -> <<>>

\* a Block.SuccessorIDs that reads the terminator alone
BlockSuccessorIDs_NoMerge(h, b) ==
    IF Len(h[b].Instructions) = 0 THEN <<>>
    ELSE SuccessorIDs(h[b].Instructions[Len(h[b].Instructions)])

\* Block.SuccessorIDs
BlockSuccessorIDs(h, b) ==
    LET is == h[b].Instructions
        n == Len(is)
    IN IF n = 0 THEN <<>>
       ELSE SuccessorIDs(is[n]) \o
            (IF n > 1 /\ is[n - 1].op \in {"OpSelectionMerge", "OpLoopMerge"}
             THEN SuccessorIDs(is[n - 1]) ELSE <<>>)

\* the seen-set of CFG.addEdges: drop the IDs that occurred before
RECURSIVE Dedup(_, _)
Dedup(ids, seen) ==
    IF ids = <<>> THEN <<>>
    ELSE IF Head(ids) \in seen THEN Dedup(Tail(ids), seen)
    ELSE <<Head(ids)>> \o Dedup(Tail(ids), seen \cup {Head(ids)})

\* the objects the IDs name, in order; 0 for an ID that names none
RECURSIVE GetObjects(_, _)
GetObjects(m, ids) ==
    IF ids = <<>> THEN <<>> ELSE <<GetObject(m, Head(ids))>> \o GetObjects(m, Tail(ids))

\* CFG.addEdges for one block: the successor blocks, or a panic
OutBlocks(w, b) == GetObjects(w.module, Dedup(BlockSuccessorIDs(w.heap, b), {}))

\* BuildCFG: succEdges of every block of the function
BuildCFG(w, f) == [b \in {w.heap[f].Blocks[i] : i \in 1..Len(w.heap[f].Blocks)} |-> OutBlocks(w, b)]

CFGPanics(w, f) ==
    \E i \in 1..Len(w.heap[f].Blocks) :
        \E o \in Range(OutBlocks(w, w.heap[f].Blocks[i])) :
            o = 0 \/ w.heap[o].kind # "Block"

Successors(cfg, b) == IF b \in DOMAIN cfg THEN cfg[b] ELSE <<>>

RECURSIVE Filter(_, _)
Filter(s, keep) ==
    IF s = <<>> THEN <<>>
    ELSE IF Head(s) \in keep THEN <<Head(s)>> \o Filter(Tail(s), keep)
    ELSE Filter(Tail(s), keep)

\* the queue loop of CFG.ReachableBlocks
RECURSIVE Traverse(_, _, _)
Traverse(cfg, queue, reachable) ==
    IF queue = <<>> THEN reachable
    ELSE IF Head(queue) \in reachable THEN Traverse(cfg, Tail(queue), reachable)
    ELSE Then(Successors(cfg, Head(queue)),
              LAMBDA successors :
                  Traverse(cfg,
                           Tail(queue) \o Filter(successors,
                                                 {x \in Range(successors) :
                                                     x \notin reachable \cup {Head(queue)}}),
                           reachable \cup {Head(queue)}))

\* a traversal that starts from the successors of the entry block
ReachableBlocks_SkipEntry(cfg, blocks) ==
    IF blocks = <<>> THEN {} ELSE Traverse(cfg, Successors(cfg, blocks[1]), {})

ReachableBlocks(cfg, blocks) ==
    IF blocks = <<>> THEN {} ELSE Traverse(cfg, <<blocks[1]>>, {})

\* ------------------------------------------------------------------------
\* The rewrite passes
\* ------------------------------------------------------------------------

\* the functions of the module in object-list order
Functions(w) == Filter(w.module.Objects,
                       {a \in 1..Len(w.heap) : w.heap[a].kind = "Function"})

RECURSIVE FilterIns(_, _)
FilterIns(is, wantVariable) ==
    IF is = <<>> THEN <<>>
    ELSE IF (Head(is).op = "OpVariable") = wantVariable
         THEN <<Head(is)>> \o FilterIns(Tail(is), wantVariable)
    ELSE FilterIns(Tail(is), wantVariable)

\* the Variable instructions of the blocks, block after block
RECURSIVE CollectVariables(_, _)
CollectVariables(h, blocks) ==
    IF blocks = <<>> THEN <<>>
    ELSE FilterIns(h[Head(blocks)].Instructions, TRUE) \o CollectVariables(h, Tail(blocks))

\* a hoisting that appends the variables to the entry block
pullLocalVarsToFuncEntry_Append(w, f) ==
    LET blocks == w.heap[f].Blocks
        newEntry == CollectVariables(w.heap, blocks)
        h1 == [a \in 1..Len(w.heap) |->
                 IF a \in Range(blocks)
                 THEN [w.heap[a] EXCEPT !.Instructions = FilterIns(@, FALSE)]
                 ELSE w.heap[a]]
    IN IF w.abort # "" THEN w
       ELSE IF blocks = <<>> THEN Panic([w EXCEPT !.heap = h1], "index out of range")
       ELSE [w EXCEPT !.heap = [h1 EXCEPT ![blocks[1]].Instructions = @ \o newEntry]]

pullLocalVarsToFuncEntry(w, f) ==
    LET blocks == w.heap[f].Blocks
        newEntry == CollectVariables(w.heap, blocks)
        h1 == [a \in 1..Len(w.heap) |->
                 IF a \in Range(blocks)
                 THEN [w.heap[a] EXCEPT !.Instructions = FilterIns(@, FALSE)]
                 ELSE w.heap[a]]
    IN IF w.abort # "" THEN w
       ELSE IF blocks = <<>> THEN Panic([w EXCEPT !.heap = h1], "index out of range")
       ELSE [w EXCEPT !.heap = [h1 EXCEPT ![blocks[1]].Instructions = newEntry \o @]]

RECURSIVE ForEachFunction(_, _, _)
PassPullLocalVarsToFuncEntry(w) == ForEachFunction(w, Functions(w), "pull")

\* a termination pass that only knows about void functions
terminateBlocksForVoidFuncs_OnlyVoid(w, f) ==
    LET isVoid == w.heap[w.heap[w.heap[f].Type].ReturnType].kind = "VoidType"
    IN IF w.abort # "" THEN w
       ELSE [w EXCEPT !.heap = [a \in 1..Len(w.heap) |->
                IF a \in Range(w.heap[f].Blocks) /\ ~IsTerminated(w.heap, a) /\ isVoid
                THEN [w.heap[a] EXCEPT !.Instructions = Append(@, Ins("OpReturn", <<>>))]
                ELSE w.heap[a]]]

terminateBlocksForVoidFuncs(w, f) ==
    LET isVoid == w.heap[w.heap[w.heap[f].Type].ReturnType].kind = "VoidType"
    IN IF w.abort # "" THEN w
       ELSE [w EXCEPT !.heap = [a \in 1..Len(w.heap) |->
                IF a \in Range(w.heap[f].Blocks) /\ ~IsTerminated(w.heap, a)
                THEN [w.heap[a] EXCEPT !.Instructions =
                         Append(@, Ins(IF isVoid THEN "OpReturn" ELSE "OpUnreachable", <<>>))]
                ELSE w.heap[a]]]

PassTerminateBlocks(w) == ForEachFunction(w, Functions(w), "terminate")

\* removeUnreachableBlocks: the function loses its unreachable blocks and
\* their IDs are returned (in w.ret, as a sequence)
removeUnreachableBlocks(w, f) ==
    LET blocks == w.heap[f].Blocks
        reachable == ReachableBlocks(BuildCFG(w, f), blocks)
    IN IF w.abort # "" THEN w
       ELSE IF Len(blocks) <= 1 THEN [w EXCEPT !.ret = <<>>]
       ELSE IF CFGPanics(w, f) THEN Panic(w, "Missing block")
       ELSE [w EXCEPT !.heap[f].Blocks = Filter(blocks, reachable),
                      !.ret = [i \in 1..Len(Filter(blocks, Range(blocks) \ reachable)) |->
                                  w.heap[Filter(blocks, Range(blocks) \ reachable)[i]].ObjectID]]

ForEachFunction(w, fs, pass) ==
    IF fs = <<>> \/ w.abort # "" THEN w
    ELSE ForEachFunction(
            CASE pass = "pull" -> pullLocalVarsToFuncEntry(w, Head(fs))
              [] pass = "terminate" -> terminateBlocksForVoidFuncs(w, Head(fs))
              [] pass = "unreachable" -> removeUnreachableBlocks(w, Head(fs)),
            Tail(fs), pass)

\* var removedBBs; for each function: removedBBs = removeUnreachableBlocks(fn);
\* then mod.RemoveObjects(removedBBs)
PassRemoveUnreachableBlocks(w) ==
    LET w1 == ForEachFunction([w EXCEPT !.ret = <<>>], Functions(w), "unreachable")
    IN IF w1.abort # "" THEN w1 ELSE RemoveObjects(w1, Range(w1.ret))

\* ------------------------------------------------------------------------
\* The checker
\* ------------------------------------------------------------------------

\* A top-level declaration.  A func has the type names of its results and
\* a body (or none); a const is "const n = 1" when init is 0 and
\* "const n = m" otherwise, m being the name of declaration init (an
\* undeclared name when the unit has no such declaration).  Declaration i
\* is named after its position, so that no name is declared twice.
FuncDecl(result, hasBody, body) ==
    [kind |-> "func", Result |-> result, hasBody |-> hasBody, Body |-> body, init |-> 0]

ConstDecl(init) ==
    [kind |-> "const", Result |-> <<>>, hasBody |-> FALSE, Body |-> <<>>, init |-> init]

\* a type of the checker: a builtin, a FuncType or an alias; Name and
\* UnderlyingType (none or one type) are the fields of an alias
BuiltinType(name) ==
    [name |-> name, ParameterTypes |-> <<>>, ReturnTypes |-> <<>>, Name |-> "", UnderlyingType |-> <<>>]

FuncType(parameterTypes, returnTypes) ==
    [name |-> "func", ParameterTypes |-> parameterTypes, ReturnTypes |-> returnTypes,
     Name |-> "", UnderlyingType |-> <<>>]

TypeAndValue(mode, type) == [Mode |-> mode, Type |-> type]

invalidType == TypeAndValue("AddressModeInvalid", BuiltinType("void"))

\* the checker before Check: every symbol unresolved, nothing reachable
NewSemanticInfo(decls) ==
    [state |-> [i \in 1..Len(decls) |-> "ResolveStateUnresolved"],
     typeOf |-> [i \in 1..Len(decls) |-> invalidType],
     errors |-> <<>>,
     ReachableSymbols |-> <<>>,
     abort |-> "",
     tav |-> invalidType]

error(c, msg) == [c EXCEPT !.errors = Append(@, msg)]

\* resolveReturnStmt in a function without named results
resolveReturnStmt(c, s, funcType) ==
    LET returnTypes == IF s.init = "expr" THEN <<BuiltinType("int")>> ELSE <<>>
        expectedReturnTypes == funcType.ReturnTypes
    IN IF Len(returnTypes) = Len(expectedReturnTypes)
       THEN IF \E i \in 1..Len(expectedReturnTypes) : returnTypes[i] # expectedReturnTypes[i]
            THEN error(c, "incorrect return type")
            ELSE c
       ELSE error(c, "expected return values")

RECURSIVE resolveStmt(_, _, _)
RECURSIVE resolveBlockStmt(_, _, _)

resolveBlockStmt(c, stmts, funcType) ==
    IF stmts = <<>> THEN c
    ELSE resolveBlockStmt(resolveStmt(c, Head(stmts), funcType), Tail(stmts), funcType)

\* resolveStmt: the var declarations, the condition "true" of an if and
\* the empty for loop resolve without an error
resolveStmt(c, s, funcType) ==
    CASE s.kind = "ret" -> resolveReturnStmt(c, s, funcType)
      [] s.kind = "if" -> resolveBlockStmt(resolveBlockStmt(c, s.body, funcType), s.els, funcType)
      [] OTHER -> c

\* resolveFuncTypeExpr of a function without parameters
resolveFuncTypeExpr(decl) ==
    TypeAndValue("AddressModeType",
                 FuncType(<<>>, [i \in 1..Len(decl.Result) |-> BuiltinType(decl.Result[i])]))

\* resolveFuncBody: a declaration without a body has a nil Body
resolveFuncBody(c, decl) ==
    IF ~decl.hasBody THEN [c EXCEPT !.abort = "nil pointer dereference"]
    ELSE resolveBlockStmt(c, decl.Body, resolveFuncTypeExpr(decl).Type)

\* resolveSymbol on the global symbol i
RECURSIVE resolveSymbol(_, _, _)
resolveSymbol(decls, c, i) ==
    IF c.abort # "" THEN c
    ELSE IF c.state[i] = "ResolveStateResolved" THEN [c EXCEPT !.tav = c.typeOf[i]]
    ELSE IF c.state[i] = "ResolveStateResolving"
         THEN [error(c, "symbol has a cyclic dependency") EXCEPT !.tav = invalidType]
    ELSE LET c1 == [c EXCEPT !.state[i] = "ResolveStateResolving"]
             \* resolveFuncSymbol, or resolveConstSymbol with resolveExpr on the initialiser
             c2 == IF decls[i].kind = "func" THEN [c1 EXCEPT !.tav = resolveFuncTypeExpr(decls[i])]
                   ELSE IF decls[i].init = 0
                        THEN [c1 EXCEPT !.tav = TypeAndValue("AddressModeConstant", BuiltinType("int"))]
                   ELSE IF decls[i].init > Len(decls)
                        THEN [error(c1, "undeclared identifier") EXCEPT !.tav = invalidType]
                   ELSE resolveSymbol(decls, c1, decls[i].init)
             c3 == IF decls[i].kind = "const" /\ c2.tav.Mode # "AddressModeConstant"
                   THEN [error(c2, "constant declaration requires a constant expression")
                         EXCEPT !.tav = invalidType]
                   ELSE c2
             c4 == [c3 EXCEPT !.state[i] = "ResolveStateResolved", !.typeOf[i] = c3.tav]
             c5 == IF decls[i].kind = "func" THEN resolveFuncBody(c4, decls[i]) ELSE c4
         IN IF c5.abort # "" THEN c5
            ELSE [c5 EXCEPT !.ReachableSymbols = Append(@, i), !.tav = c3.tav]

\* the loop of Check over the symbols of the global scope
RECURSIVE ResolveAll(_, _, _)
ResolveAll(decls, c, i) ==
    IF i > Len(decls) THEN c ELSE ResolveAll(decls, resolveSymbol(decls, c, i), i + 1)

Check(decls) == ResolveAll(decls, NewSemanticInfo(decls), 1)

\* ------------------------------------------------------------------------
\* The checker, one call at a time
\* ------------------------------------------------------------------------

\* the names a file declares and uses
Names == {"a", "b"}

\* A global declaration with a name: "const name = 1" (no refs) or
\* "const name = ref", "type name ref", or "func name() { ref(); ... }" with
\* one call statement per ref.  The symbol of declaration i is i, and so is
\* its source range.
GlobalDecl(kind, name, refs) == [kind |-> kind, name |-> name, refs |-> refs, params |-> <<>>]

\* "func name(param int) { ref(); ... }": a function with no parameter or
\* one; the symbol of the parameter of declaration i of n is n + i
ParamFuncDecl(name, params, refs) == [kind |-> "func", name |-> name, refs |-> refs, params |-> params]

ParamSymbol(decls, f) == Len(decls) + f

NewScope(parent) == [Parent |-> parent, Symbols |-> <<>>, Table |-> EmptyMap]

\* the symbol of a name in one scope, 0 when there is none
ShallowFind(s, name) ==
    IF name \in DOMAIN s.Table THEN s.Symbols[s.Table[name] + 1] ELSE 0

Add(s, sym, name) ==
    IF ShallowFind(s, name) # 0 THEN s
    ELSE [s EXCEPT !.Table = Put(@, name, Len(s.Symbols)), !.Symbols = Append(@, sym)]

\* Scope.Find from the scope it (-1 is the nil parent) through the parents
RECURSIVE Find(_, _, _)
Find(scopes, it, name) ==
    IF it = -1 THEN 0
    ELSE IF ShallowFind(scopes[it], name) # 0 THEN ShallowFind(scopes[it], name)
    ELSE Find(scopes, scopes[it].Parent, name)

\* an error: its range, the pieces of its formatted message and its notes
NewError(range, msg, note) == [range |-> range, msg |-> msg, note |-> note]

\* The checker of a file.  Scopes are keyed by the node they were created
\* for (0 is the file, i the symbol i); a TypeAndValue lives in tavHeap and
\* is passed around by its address.  stack holds the calls of resolveSymbol
\* that have not returned, ret the value the last call returned, and
\* lastCall the symbol and the state the last call found it in.
NewChecker(decls) ==
    [decls |-> decls,
     Scopes |-> Put(EmptyMap, 0, NewScope(-1)),
     scopeStack |-> <<0>>,
     state |-> [i \in 1..Len(decls) |-> "ResolveStateUnresolved"],
     symScope |-> [i \in 1..Len(decls) |-> -1],
     tavHeap |-> <<>>,
     typeOf |-> [i \in 1..Len(decls) |-> 0],
     errors |-> <<>>,
     ReachableSymbols |-> <<>>,
     stack |-> <<>>,
     ret |-> 0,
     pc |-> "shallowWalk",
     next |-> 1,
     lastCall |-> [sym |-> 0, state |-> ""],
     round |-> 1,
     first |-> <<>>,
     paramType |-> [i \in 1..Len(decls) |-> 0],
     lastFind |-> [in |-> 0, name |-> "", found |-> 0]]

\* the resolve state of a symbol; the symbol of a parameter is Resolved when
\* it is made
ResolveState(c, sym) ==
    IF sym > Len(c.decls) THEN "ResolveStateResolved" ELSE c.state[sym]

\* SemanticInfo.TypeOf on a symbol
TypeOf(c, sym) ==
    IF sym > Len(c.decls) THEN c.paramType[sym - Len(c.decls)] ELSE c.typeOf[sym]

currentScope(c) == c.scopeStack[Len(c.scopeStack)]

enterScope(c, scope) == [c EXCEPT !.scopeStack = Append(@, scope)]

leaveScope(c) == [c EXCEPT !.scopeStack = SubSeq(@, 1, Len(@) - 1)]

createScopeFor(c, n, parent) ==
    IF n \in DOMAIN c.Scopes THEN c ELSE [c EXCEPT !.Scopes = Put(@, n, NewScope(parent))]

\* a Check that keeps the reachable symbols of the SemanticInfo it replaces
enterCheck_SameReachable(c) ==
    enterScope([c EXCEPT !.Scopes = Put(EmptyMap, 0, NewScope(-1)),
                         !.typeOf = [i \in 1..Len(c.decls) |-> 0],
                         !.state = [i \in 1..Len(c.decls) |-> "ResolveStateUnresolved"],
                         !.symScope = [i \in 1..Len(c.decls) |-> -1],
                         !.paramType = [i \in 1..Len(c.decls) |-> 0]], 0)

\* Check up to shallowWalk: a new SemanticInfo, the global scope entered;
\* the symbols shallowWalk is about to make are new and Unresolved
enterCheck(c) ==
    enterScope([c EXCEPT !.Scopes = Put(EmptyMap, 0, NewScope(-1)),
                         !.typeOf = [i \in 1..Len(c.decls) |-> 0],
                         !.ReachableSymbols = <<>>,
                         !.state = [i \in 1..Len(c.decls) |-> "ResolveStateUnresolved"],
                         !.symScope = [i \in 1..Len(c.decls) |-> -1],
                         !.paramType = [i \in 1..Len(c.decls) |-> 0]], 0)

\* what a SemanticInfo says: the TypeAndValue of each symbol (none or one),
\* the scopes and the reachable symbols
SemanticInfoOf(c) ==
    [typeOf |-> [sym \in DOMAIN c.typeOf |->
                    IF c.typeOf[sym] = 0 THEN <<>> ELSE <<c.tavHeap[c.typeOf[sym]]>>],
     Scopes |-> c.Scopes,
     ReachableSymbols |-> c.ReachableSymbols]

\* an addSymbol that binds the name to the latest declaration
addSymbol_Rebind(c, sym) ==
    [c EXCEPT !.Scopes[currentScope(c)] =
                  [@ EXCEPT !.Table = Put(@, c.decls[sym].name, Len(c.Scopes[currentScope(c)].Symbols)),
                            !.Symbols = Append(@, sym)],
              !.symScope[sym] = currentScope(c)]

addSymbol(c, sym) ==
    IF ShallowFind(c.Scopes[currentScope(c)], c.decls[sym].name) # 0
    THEN error(c, NewError(sym, <<"symbol '", c.decls[sym].name, "' redefinition">>,
                           <<[range |-> ShallowFind(c.Scopes[currentScope(c)], c.decls[sym].name),
                              msg |-> "first declared here"]>>))
    ELSE [c EXCEPT !.Scopes[currentScope(c)] = Add(@, sym, c.decls[sym].name),
                   !.symScope[sym] = currentScope(c)]

typeFromName(name) == IF name = "int" THEN BuiltinType("int") ELSE BuiltinType("void")

\* a new TypeAndValue, returned by its address
NewTypeAndValue(c, tav) == [c EXCEPT !.tavHeap = Append(@, tav), !.ret = Len(c.tavHeap) + 1]

\* processFields of resolveFuncTypeExpr on the parameters of function f: the
\* type of the field is resolved, and the symbol of the parameter is made,
\* marked Resolved, given that type and added to the current scope
processFields(c, f) ==
    IF c.decls[f].params = <<>> THEN c
    ELSE LET c1 == NewTypeAndValue(c, TypeAndValue("AddressModeType", typeFromName("int")))
         IN [c1 EXCEPT !.Scopes[currentScope(c1)] = Add(@, ParamSymbol(c1.decls, f), c1.decls[f].params[1]),
                       !.paramType[f] = c1.ret]

\* the record of a Scope.Find: the declaration the identifier is in, the
\* name and the symbol found
LogFind(c, name) ==
    [c EXCEPT !.lastFind = [in |-> c.stack[Len(c.stack)].sym, name |-> name,
                            found |-> Find(c.Scopes, currentScope(c), name)]]

\* a SetResolveState that starts over where it should finish
SetResolveState_Reset(c, sym, r) ==
    [c EXCEPT !.state[sym] = IF r = "ResolveStateResolved" THEN "ResolveStateUnresolved" ELSE r]

SetResolveState(c, sym, r) ==
    [c EXCEPT !.state[sym] = r]

\* the call of resolveSymbol at the top of the stack
Top(c) == c.stack[Len(c.stack)]

SetTop(c, frame) == [c EXCEPT !.stack[Len(c.stack)] = frame]

Call(c, sym) ==
    [c EXCEPT !.stack = Append(@, [sym |-> sym, pc |-> "enter", k |-> 0, symType |-> 0])]

Return(c) == [c EXCEPT !.stack = SubSeq(@, 1, Len(@) - 1)]

\* a resolveSymbol that says nothing about a symbol it finds Resolving
cyclicDependency_Silent(c, sym) ==
    NewTypeAndValue(c, invalidType)

\* resolveSymbol on a symbol that is Resolving
cyclicDependency(c, sym) ==
    NewTypeAndValue(error(c, NewError(sym, <<"symbol ", c.decls[sym].name, " has a cyclic dependency">>, <<>>)), invalidType)

InternStrongTypeAlias(name, t) ==
    [name |-> "alias", ParameterTypes |-> <<>>, ReturnTypes |-> <<>>, Name |-> name, UnderlyingType |-> <<t>>]

\* ReachableSymbols with the finished symbol in front
appendReachable_Front(c, sym) ==
    IF c.symScope[sym] = 0 THEN [c EXCEPT !.ReachableSymbols = <<sym>> \o @] ELSE c

\* the end of resolveSymbol: a symbol of the global scope is reachable
appendReachable(c, sym) ==
    IF c.symScope[sym] = 0 THEN [c EXCEPT !.ReachableSymbols = Append(@, sym)] ELSE c

\* ------------------------------------------------------------------------
\* Lowering (IREmitter)
\* ------------------------------------------------------------------------

\* A statement of the AST.  kind is "ret", "var", "if" or a kind the
\* emitter does not lower; init is the initialiser of a var ("none" or
\* "expr", the sum of two literals); body and els are the statement lists
\* of the two branches of an if.
Stmt(kind, init, body, els) == [kind |-> kind, init |-> init, body |-> body, els |-> els]

enterBlock(w, b) == [w EXCEPT !.blockStack = Append(@, b)]

leaveBlock(w) ==
    IF Len(w.blockStack) > 0
    THEN [w EXCEPT !.blockStack = SubSeq(@, 1, Len(@) - 1)]
    ELSE w

currentBlock(w) == IF Len(w.blockStack) > 0 THEN w.blockStack[Len(w.blockStack)] ELSE 0

RECURSIVE emitType(_, _)
RECURSIVE emitTypes(_, _, _)

\* the loop of emitType over the parameter types; w.ret is the list of SPIR-V types
emitTypes(w, ts, acc) ==
    IF ts = <<>> \/ w.abort # "" THEN [w EXCEPT !.ret = acc]
    ELSE LET w1 == emitType(w, Head(ts))
         IN emitTypes(w1, Tail(ts), Append(acc, w1.ret))

emitType(w, t) ==
    CASE w.abort # "" -> w
      [] t.name = "void" -> InternVoid(w)
      [] t.name = "bool" -> InternBool(w)
      [] t.name = "int" -> InternInt(w, 32, TRUE)
      [] t.name = "uint" -> InternInt(w, 32, FALSE)
      [] t.name = "float32" -> InternFloat(w, 32)
      [] t.name = "float64" -> InternFloat(w, 64)
      [] t.name = "func" ->
            LET w1 == IF Len(t.ReturnTypes) > 0 THEN emitType(w, t.ReturnTypes[1]) ELSE InternVoid(w)
                w2 == emitTypes(w1, t.ParameterTypes, <<>>)
            IN IF w2.abort # "" THEN w2 ELSE InternFunc(w2, w1.ret, w2.ret)
      [] OTHER -> Panic(w, "unexpected type")

\* emitConstantValue for an int or bool constant of the checker
emitConstantValue(w, t, value) ==
    Then(emitType(w, BuiltinType(t)), LAMBDA w1 :
        CASE w1.abort # "" -> w1
          [] w1.heap[w1.ret].kind = "BoolType" -> InternBoolConstant(w1, value = 1, w1.ret)
          [] w1.heap[w1.ret].kind = "IntType" -> InternIntConstant(w1, value, w1.ret)
          [] OTHER -> Panic(w1, "unsupported literal type"))

\* emitBinaryExpr on the sum of the int literals a and b
emitBinaryExpr(w, a, b) ==
    Then(emitConstantValue(w, "int", a), LAMBDA lhs :
    Then(emitConstantValue(lhs, "int", b), LAMBDA rhs :
    Then(emitType(rhs, BuiltinType("int")), LAMBDA resultType :
    Then(NewValue(resultType, resultType.ret), LAMBDA result :
        IF result.abort # "" THEN result
        ELSE [Push(result, currentBlock(result),
                   Ins("OpIAdd", <<result.heap[resultType.ret].ObjectID,
                                   result.heap[result.ret].ObjectID,
                                   result.heap[lhs.ret].ObjectID,
                                   result.heap[rhs.ret].ObjectID>>))
              EXCEPT !.ret = result.ret]))))

\* the second half of emitVar: the Store of an initialiser that is neither
\* a literal nor an identifier
emitVarStore(w, init, variable, block) ==
    IF init # "expr" THEN [w EXCEPT !.ret = variable]
    ELSE Then(emitBinaryExpr(w, 1, 2), LAMBDA rhs :
            IF rhs.abort # "" THEN rhs
            ELSE [Push(rhs, block, Ins("OpStore", <<rhs.heap[variable].ObjectID,
                                                    rhs.heap[rhs.ret].ObjectID>>))
                  EXCEPT !.ret = variable])

\* the constant the checker found for the initialiser, 0 when it found none
InitValue(init) ==
    CASE init = "expr" -> 3
      [] init = "literal" -> 1
      [] OTHER -> 0

\* emitVar for a local int variable: "var x int" when init is "none",
\* "var x int = 1" when it is "literal", "var x int = 1 + 2" (a constant
\* initialiser of value 3) when it is "expr", and "y := x", x being a local
\* variable (an InitTypeAndValue of mode Variable), when it is "ident"
emitVar(w, init) ==
    Then(emitType(w, BuiltinType("int")), LAMBDA spirvType :
    Then(InternPtr(spirvType, spirvType.ret, StorageClassFunction), LAMBDA ptrType :
    Then(NewVariable(ptrType, ptrType.ret, StorageClassFunction), LAMBDA variable :
    Then(IF InitValue(init) # 0 THEN emitConstantValue(variable, "int", InitValue(init)) ELSE variable,
         LAMBDA initValue :
        IF initValue.abort # "" THEN initValue
        ELSE emitVarStore(
                Push(initValue, currentBlock(initValue),
                     Ins("OpVariable",
                         <<initValue.heap[initValue.heap[variable.ret].Type].ObjectID,
                           initValue.heap[variable.ret].ObjectID,
                           initValue.heap[variable.ret].StorageClass,
                           IF InitValue(init) # 0 THEN initValue.heap[initValue.ret].ObjectID ELSE 0>>)),
                init, variable.ret, currentBlock(initValue))))))

\* A record of what the emitter did, kept for the properties and read by
\* no step of the program.  ifs has, under the merge block of each if that
\* was lowered, the block that was current, the condition, the two
\* branch blocks, the ID counter before the blocks were made and, for each
\* branch, the block in which the emission of its body ended and whether
\* that block was terminated then; returns has the block made after each
\* return; dead has the instructions lowered from a statement that follows
\* a return in its statement list, each with the block it was pushed to.
NoLowered == [ifs |-> EmptyMap, returns |-> {}, dead |-> {}]

LogIf(w, mergeBlock, entry) ==
    IF w.abort # "" THEN w ELSE [w EXCEPT !.lowered.ifs = Put(@, mergeBlock, entry)]

LogBranchEnd(w, mergeBlock, branch) ==
    IF w.abort # "" THEN w
    ELSE [w EXCEPT !.lowered.ifs[mergeBlock] =
                      IF branch = "true"
                      THEN [@ EXCEPT !.trueEnd = currentBlock(w),
                                     !.trueEndTerminated = IsTerminated(w.heap, currentBlock(w))]
                      ELSE [@ EXCEPT !.falseEnd = currentBlock(w),
                                     !.falseEndTerminated = IsTerminated(w.heap, currentBlock(w))]]

LogReturn(w) ==
    IF w.abort # "" THEN w ELSE [w EXCEPT !.lowered.returns = @ \cup {currentBlock(w)}]

\* the instructions that h1 has and h, an earlier heap, has not, with their blocks
NewInstructions(h, h1) ==
    UNION {{[block |-> b, ins |-> h1[b].Instructions[i]] :
               i \in (IF b <= Len(h) THEN Len(h[b].Instructions) ELSE 0) + 1..Len(h1[b].Instructions)} :
           b \in 1..Len(h1)}

LogDead(w, w1) ==
    IF w1.abort # "" THEN w1
    ELSE [w1 EXCEPT !.lowered.dead = @ \cup NewInstructions(w.heap, w1.heap)]

\* an emitReturnStmt that goes on in the block it returned from
emitReturnStmt_SameBlock(w, s) ==
    Then(IF s.init = "expr" THEN emitConstantValue(w, "int", 1) ELSE w, LAMBDA value :
        IF value.abort # "" THEN value
        ELSE Push(value, currentBlock(w),
                  IF s.init = "expr"
                  THEN Ins("OpReturnValue", <<value.heap[value.ret].ObjectID>>)
                  ELSE Ins("OpReturn", <<>>)))

\* emitReturnStmt: "return 1" when s.init is "expr", a bare "return" otherwise
emitReturnStmt(w, s) ==
    Then(IF s.init = "expr" THEN emitConstantValue(w, "int", 1) ELSE w, LAMBDA value :
        IF value.abort # "" THEN value
        ELSE Then(NewBlock(leaveBlock(Push(value, currentBlock(w),
                                           IF s.init = "expr"
                                           THEN Ins("OpReturnValue", <<value.heap[value.ret].ObjectID>>)
                                           ELSE Ins("OpReturn", <<>>))),
                           value.heap[currentBlock(w)].Function),
                  LAMBDA newBlock : LogReturn(enterBlock(newBlock, newBlock.ret))))

branchToMergeBlockIfNeeded(w, current, mergeBlock) ==
    IF w.abort # "" THEN w
    ELSE IF ~IsTerminated(w.heap, current)
         THEN Push(w, current, Ins("OpBranch", <<w.heap[mergeBlock].ObjectID>>))
    ELSE w

RECURSIVE emitStatement(_, _)
RECURSIVE emitStatements(_, _, _)
RECURSIVE emitIfStmt(_, _)

\* the loop of emitBlockStmt; afterReturn says that a return came earlier in
\* the list
emitStatements(w, stmts, afterReturn) ==
    IF stmts = <<>> \/ w.abort # "" THEN w
    ELSE Then(emitStatement(w, Head(stmts)), LAMBDA w1 :
            emitStatements(IF afterReturn THEN LogDead(w, w1) ELSE w1,
                           Tail(stmts), afterReturn \/ Head(stmts).kind = "ret"))

emitBlockStmt(w, stmts) == emitStatements(w, stmts, FALSE)

\* the second half of emitIfStmt: the branches, then the merge block
emitIfBranches(w, s, trueBlock, falseBlock, mergeBlock) ==
    Then(LogBranchEnd(emitBlockStmt(enterBlock(leaveBlock(w), trueBlock), s.body), mergeBlock, "true"),
         LAMBDA body :
        IF body.abort # "" THEN body
        ELSE Then(LogBranchEnd(
                      emitBlockStmt(enterBlock(leaveBlock(branchToMergeBlockIfNeeded(body, trueBlock, mergeBlock)),
                                               falseBlock),
                                    s.els),
                      mergeBlock, "false"),
                  LAMBDA els :
                    IF els.abort # "" THEN els
                    ELSE enterBlock(leaveBlock(branchToMergeBlockIfNeeded(els, falseBlock, mergeBlock)),
                                    mergeBlock)))

\* emitIfStmt with the condition "true"
emitIfStmt(w, s) ==
    Then(emitConstantValue(w, "bool", 1), LAMBDA cond :
        IF cond.abort # "" THEN cond
        ELSE
    Then(NewBlock(cond, cond.heap[currentBlock(cond)].Function), LAMBDA trueBlock :
    Then(NewBlock(trueBlock, cond.heap[currentBlock(cond)].Function), LAMBDA falseBlock :
    Then(NewBlock(falseBlock, cond.heap[currentBlock(cond)].Function), LAMBDA mergeBlock :
        emitIfBranches(
            LogIf(Push(Push(mergeBlock, currentBlock(cond),
                            Ins("OpSelectionMerge", <<mergeBlock.heap[mergeBlock.ret].ObjectID>>)),
                       currentBlock(cond),
                       Ins("OpBranchConditional", <<mergeBlock.heap[cond.ret].ObjectID,
                                                    mergeBlock.heap[trueBlock.ret].ObjectID,
                                                    mergeBlock.heap[falseBlock.ret].ObjectID>>)),
                  mergeBlock.ret,
                  [block |-> currentBlock(cond), cond |-> cond.ret,
                   trueBlock |-> trueBlock.ret, falseBlock |-> falseBlock.ret,
                   objects |-> Len(cond.heap),
                   trueEnd |-> 0, trueEndTerminated |-> FALSE,
                   falseEnd |-> 0, falseEndTerminated |-> FALSE]),
            s, trueBlock.ret, falseBlock.ret, mergeBlock.ret)))))

emitStatement(w, s) ==
    CASE w.abort # "" -> w
      [] s.kind = "ret" -> emitReturnStmt(w, s)
      [] s.kind = "var" -> emitVar(w, s.init)
      [] s.kind = "if" -> emitIfStmt(w, s)
      [] OTHER -> Panic(w, "unsupported statement")

RECURSIVE NewFuncParams(_, _, _)
\* the loop of emitFunc that creates the parameters; w.ret is their list
NewFuncParams(w, argTypes, acc) ==
    IF argTypes = <<>> \/ w.abort # "" THEN [w EXCEPT !.ret = acc]
    ELSE LET w1 == NewFuncParam(w, Head(argTypes))
         IN NewFuncParams(w1, Tail(argTypes), Append(acc, w1.ret))

\* emitFunc without the entry block
emitFunc_NoEntry(w, decl, funcType) ==
    Then(emitType(w, funcType), LAMBDA spirvFuncType :
        IF spirvFuncType.abort # "" THEN spirvFuncType
        ELSE
    Then(NewFuncParams(spirvFuncType, spirvFuncType.heap[spirvFuncType.ret].ArgTypes, <<>>), LAMBDA params :
        NewFunction(params, spirvFuncType.ret, params.ret)))

\* emitFunc: decl is the FuncDecl of the symbol and funcType its type
emitFunc(w, decl, funcType) ==
    Then(emitType(w, funcType), LAMBDA spirvFuncType :
        IF spirvFuncType.abort # "" THEN spirvFuncType
        ELSE
    Then(NewFuncParams(spirvFuncType, spirvFuncType.heap[spirvFuncType.ret].ArgTypes, <<>>), LAMBDA params :
    Then(NewFunction(params, spirvFuncType.ret, params.ret), LAMBDA spirvFunction :
        IF ~decl.hasBody THEN spirvFunction
        ELSE
    Then(NewBlock(spirvFunction, spirvFunction.ret), LAMBDA spirvBlock :
        [leaveBlock(emitBlockStmt(
            enterBlock([spirvBlock EXCEPT !.entryOf = Put(@, spirvFunction.ret, spirvBlock.ret)],
                       spirvBlock.ret),
            decl.Body))
         EXCEPT !.ret = spirvFunction.ret]))))

emitSymbol(w, decl, tav) ==
    IF w.abort # "" THEN w
    ELSE IF decl.kind = "func" THEN emitFunc(w, decl, tav.Type)
    ELSE Panic(w, "unsupported symbol")

\* ------------------------------------------------------------------------
\* The serializers: TextPrinter and BinaryPrinter
\* ------------------------------------------------------------------------

\* an AddCapability that appends without looking
AddCapability_Always(w, cap) == [w EXCEPT !.module.capabilities = Append(@, cap)]

AddCapability(w, cap) ==
    IF cap \in Range(w.module.capabilities) THEN w
    ELSE [w EXCEPT !.module.capabilities = Append(@, cap)]

\* An operand as a printer writes it: tag "id" for the ID of an object (the
\* text printer writes it inside the name "%kind_name_id", kind being
\* "func", "block", "type", "const" or nothing), tag "lit" for a literal.
Operand(tag, kind, id, value) == [tag |-> tag, kind |-> kind, id |-> id, value |-> value]

Lit(v) == Operand("lit", "", 0, v)

\* Word(x) of an ID
Word(id) == Operand("id", "", id, 0)

\* Word(uint32(v)) of a literal: v itself from 0 to 2^31 - 1, which is as
\* far as the numbers of the model go, and v + 2^32, marked "wrapped", for a
\* negative v
WordOf(v) == IF v >= 0 THEN Lit(v) ELSE Operand("lit", "wrapped", 0, v)

\* what a printer has written, and the panic that stopped it
NewPrinter == [header |-> <<>>, out |-> <<>>, abort |-> ""]

\* TextPrinter.emit and emitWithObject, BinaryPrinter.emitOp: one instruction
\* goes out, the result first when the text printer names one
emit(p, op, operands) ==
    IF p.abort # "" THEN p
    ELSE [p EXCEPT !.out = Append(@, [op |-> op, operands |-> operands])]

PrinterPanic(p, msg) == IF p.abort # "" THEN p ELSE [p EXCEPT !.abort = msg]

nameOf(h, a) ==
    Operand("id",
            CASE h[a].kind = "Function" -> "func"
              [] h[a].kind = "Block" -> "block"
              [] h[a].kind \in TypeKinds -> "type"
              [] h[a].kind = "BoolConstant" -> "const"
              [] OTHER -> "",
            h[a].ObjectID, 0)

\* the IDs among ids that name no object of the module: nameOfByID panics on them
Missing(w, ids) == {i \in 1..Len(ids) : GetObject(w.module, ids[i]) = 0}

\* nameOfByID on each of ids
namesOfByID(w, ids) == [i \in 1..Len(ids) |-> nameOf(w.heap, GetObject(w.module, ids[i]))]

\* emitWithObject(GetObject(result), op, args...) where the arguments are the
\* names of ids followed by lits, or ids[1], lits, then the rest of ids when
\* split is set (the storage class of OpVariable stands between two names)
TextPrinter_emitNamed(p, w, result, op, ids, lits, split) ==
    IF p.abort # "" THEN p
    ELSE IF Missing(w, ids) # {} THEN PrinterPanic(p, "object does not exist")
    ELSE IF result # 0 /\ GetObject(w.module, result) = 0
         THEN PrinterPanic(p, "nil pointer dereference")
    ELSE emit(p, op,
              (IF result # 0 THEN <<nameOf(w.heap, GetObject(w.module, result))>> ELSE <<>>)
              \o (IF split
                  THEN <<namesOfByID(w, ids)[1]>> \o lits \o Tail(namesOfByID(w, ids))
                  ELSE namesOfByID(w, ids) \o lits))

TextPrinter_emitInstruction(p, w, ins) ==
    CASE ins.op = "OpReturn" -> emit(p, "OpReturn", <<>>)
      [] ins.op = "OpReturnValue" ->
            TextPrinter_emitNamed(p, w, 0, "OpReturnValue", ins.ids, <<>>, FALSE)
      [] ins.op = "OpIAdd" ->
            TextPrinter_emitNamed(p, w, ins.ids[2], "OpIAdd",
                                  <<ins.ids[1], ins.ids[3], ins.ids[4]>>, <<>>, FALSE)
      [] ins.op = "OpVariable" ->
            TextPrinter_emitNamed(p, w, ins.ids[2], "OpVariable",
                                  IF ins.ids[4] # 0 THEN <<ins.ids[1], ins.ids[4]>> ELSE <<ins.ids[1]>>,
                                  <<Lit(ins.ids[3])>>, TRUE)
      [] ins.op = "OpStore" ->
            TextPrinter_emitNamed(p, w, 0, "OpStore", ins.ids, <<>>, FALSE)
      [] OTHER -> PrinterPanic(p, "unsupported instruction")

RECURSIVE TextPrinter_emitInstructions(_, _, _)
\* the loop of emitBlock over the instructions
TextPrinter_emitInstructions(p, w, is) ==
    IF is = <<>> \/ p.abort # "" THEN p
    ELSE TextPrinter_emitInstructions(TextPrinter_emitInstruction(p, w, Head(is)), w, Tail(is))

TextPrinter_emitBlock(p, w, bb) ==
    TextPrinter_emitInstructions(emit(p, "OpLabel", <<nameOf(w.heap, bb)>>), w,
                                 w.heap[bb].Instructions)

RECURSIVE TextPrinter_emitBlocks(_, _, _)
TextPrinter_emitBlocks(p, w, bbs) ==
    IF bbs = <<>> \/ p.abort # "" THEN p
    ELSE TextPrinter_emitBlocks(TextPrinter_emitBlock(p, w, Head(bbs)), w, Tail(bbs))

RECURSIVE TextPrinter_emitParams(_, _, _)
\* the loop of emitFunction over the parameters
TextPrinter_emitParams(p, w, params) ==
    IF params = <<>> \/ p.abort # "" THEN p
    ELSE TextPrinter_emitParams(
            emit(p, "OpFunctionParameter",
                 <<nameOf(w.heap, Head(params)), nameOf(w.heap, w.heap[Head(params)].Type)>>),
            w, Tail(params))

TextPrinter_emitFunction(p, w, f) ==
    emit(TextPrinter_emitBlocks(
            TextPrinter_emitParams(
                emit(p, "OpFunction",
                     <<nameOf(w.heap, f), nameOf(w.heap, w.heap[w.heap[f].Type].ReturnType),
                       Lit(FunctionControlNone), nameOf(w.heap, w.heap[f].Type)>>),
                w, w.heap[f].Params),
            w, w.heap[f].Blocks),
         "OpFunctionEnd", <<>>)

\* emitVoidType, emitBoolType, emitIntType, emitFloatType, emitPtrType, emitFuncType
TextPrinter_emitType(p, w, t) ==
    LET o == w.heap[t]
    IN CASE o.kind = "VoidType" -> emit(p, "OpTypeVoid", <<nameOf(w.heap, t)>>)
         [] o.kind = "BoolType" -> emit(p, "OpTypeBool", <<nameOf(w.heap, t)>>)
         [] o.kind = "IntType" ->
               emit(p, "OpTypeInt", <<nameOf(w.heap, t), Lit(o.BitWidth),
                                      Lit(IF o.IsSigned THEN 1 ELSE 0)>>)
         [] o.kind = "FloatType" -> emit(p, "OpTypeFloat", <<nameOf(w.heap, t), Lit(o.BitWidth)>>)
         [] o.kind = "PtrType" ->
               emit(p, "OpTypePointer", <<nameOf(w.heap, t), Lit(o.StorageClass),
                                          nameOf(w.heap, o.To)>>)
         [] o.kind = "FuncType" ->
               emit(p, "OpTypeFunction",
                    <<nameOf(w.heap, t), nameOf(w.heap, o.ReturnType)>>
                    \o [i \in 1..Len(o.ArgTypes) |-> nameOf(w.heap, o.ArgTypes[i])])
         [] OTHER -> PrinterPanic(p, "unsupported type")

\* emitBoolConstant, emitIntConstant, emitFloatConstant
TextPrinter_emitConstant(p, w, c) ==
    LET o == w.heap[c]
    IN CASE o.kind = "BoolConstant" ->
               emit(p, IF o.Value = 1 THEN "OpConstantTrue" ELSE "OpConstantFalse",
                    <<nameOf(w.heap, c), nameOf(w.heap, o.Type)>>)
         [] o.kind \in {"IntConstant", "FloatConstant"} ->
               emit(p, "OpConstant", <<nameOf(w.heap, c), nameOf(w.heap, o.Type), Lit(o.Value)>>)
         [] OTHER -> PrinterPanic(p, "unsupported constant")

TextPrinter_emitObject(p, w, obj) ==
    CASE w.heap[obj].kind = "Function" -> TextPrinter_emitFunction(p, w, obj)
      [] w.heap[obj].kind \in TypeKinds -> TextPrinter_emitType(p, w, obj)
      [] w.heap[obj].kind \in ConstantKinds -> TextPrinter_emitConstant(p, w, obj)
      [] OTHER -> p

RECURSIVE TextPrinter_emitObjects(_, _, _, _)
\* one loop of Emit: the objects of objs that are of one of the kinds
TextPrinter_emitObjects(p, w, objs, kinds) ==
    IF objs = <<>> \/ p.abort # "" THEN p
    ELSE TextPrinter_emitObjects(
            IF w.heap[Head(objs)].kind \in kinds THEN TextPrinter_emitObject(p, w, Head(objs)) ELSE p,
            w, Tail(objs), kinds)

RECURSIVE emitCapabilities(_, _)
\* TextPrinter.emitCapabilities and BinaryPrinter.emitCapabilities
emitCapabilities(p, caps) ==
    IF caps = <<>> THEN p
    ELSE emitCapabilities(emit(p, "OpCapability", <<Lit(Head(caps))>>), Tail(caps))

\* TextPrinter.emitMemoryModel and BinaryPrinter.emitMemoryModel
emitMemoryModel(p, m) ==
    emit(p, "OpMemoryModel", <<Lit(m.AddressingModel), Lit(m.MemoryModel)>>)

\* a TextPrinter.Emit that writes the functions before the constants
TextPrinter_Emit_FunctionsFirst(w) ==
    TextPrinter_emitObjects(
        TextPrinter_emitObjects(
            TextPrinter_emitObjects(
                emitMemoryModel(emitCapabilities(NewPrinter, w.module.capabilities), w.module),
                w, w.module.Objects, TypeKinds),
            w, w.module.Objects, {"Function"}),
        w, w.module.Objects, ConstantKinds)

TextPrinter_Emit(w) ==
    TextPrinter_emitObjects(
        TextPrinter_emitObjects(
            TextPrinter_emitObjects(
                emitMemoryModel(emitCapabilities(NewPrinter, w.module.capabilities), w.module),
                w, w.module.Objects, TypeKinds),
            w, w.module.Objects, ConstantKinds),
        w, w.module.Objects, {"Function"})

BinaryPrinter_emitInstruction(p, ins) ==
    CASE ins.op = "OpReturn" -> emit(p, "OpReturn", <<>>)
      [] ins.op = "OpReturnValue" -> emit(p, "OpReturnValue", <<Word(ins.ids[1])>>)
      [] ins.op = "OpIAdd" ->
            emit(p, "OpIAdd", <<Word(ins.ids[1]), Word(ins.ids[2]),
                                Word(ins.ids[3]), Word(ins.ids[4])>>)
      [] OTHER -> PrinterPanic(p, "unsupported instruction")

RECURSIVE BinaryPrinter_emitInstructions(_, _)
\* the loop of emitBlock over the instructions
BinaryPrinter_emitInstructions(p, is) ==
    IF is = <<>> \/ p.abort # "" THEN p
    ELSE BinaryPrinter_emitInstructions(BinaryPrinter_emitInstruction(p, Head(is)), Tail(is))

BinaryPrinter_emitBlock(p, w, block) ==
    BinaryPrinter_emitInstructions(emit(p, "OpLabel", <<Word(w.heap[block].ObjectID)>>),
                                   w.heap[block].Instructions)

RECURSIVE BinaryPrinter_emitBlocks(_, _, _)
BinaryPrinter_emitBlocks(p, w, blocks) ==
    IF blocks = <<>> \/ p.abort # "" THEN p
    ELSE BinaryPrinter_emitBlocks(BinaryPrinter_emitBlock(p, w, Head(blocks)), w, Tail(blocks))

BinaryPrinter_emitFunction(p, w, f) ==
    emit(BinaryPrinter_emitBlocks(
            emit(p, "OpFunction",
                 <<Word(w.heap[w.heap[w.heap[f].Type].ReturnType].ObjectID),
                   Word(w.heap[f].ObjectID),
                   WordOf(FunctionControlNone),
                   Word(w.heap[w.heap[f].Type].ObjectID)>>),
            w, w.heap[f].Blocks),
         "OpFunctionEnd", <<>>)

\* emitVoidType, emitBoolType, emitIntType, emitFloatType, emitPtrType, emitFuncType
BinaryPrinter_emitType(p, w, t) ==
    LET o == w.heap[t]
    IN CASE o.kind = "VoidType" -> emit(p, "OpTypeVoid", <<Word(o.ObjectID)>>)
         [] o.kind = "BoolType" -> emit(p, "OpTypeBool", <<Word(o.ObjectID)>>)
         [] o.kind = "IntType" ->
               emit(p, "OpTypeInt", <<Word(o.ObjectID), WordOf(o.BitWidth),
                                      WordOf(IF o.IsSigned THEN 1 ELSE 0)>>)
         [] o.kind = "FloatType" -> emit(p, "OpTypeFloat", <<Word(o.ObjectID), WordOf(o.BitWidth)>>)
         [] o.kind = "PtrType" ->
               emit(p, "OpTypePointer", <<Word(o.ObjectID), WordOf(o.StorageClass),
                                          Word(w.heap[o.To].ObjectID)>>)
         [] o.kind = "FuncType" ->
               emit(p, "OpTypeFunction",
                    <<Word(o.ObjectID), Word(w.heap[o.ReturnType].ObjectID)>>
                    \o [i \in 1..Len(o.ArgTypes) |-> Word(w.heap[o.ArgTypes[i]].ObjectID)])
         [] OTHER -> PrinterPanic(p, "unsupported type")

\* emitBoolConstant, emitIntConstant; a float constant goes out as the
\* words of its bits, which are not the value the text printer writes
BinaryPrinter_emitConstant(p, w, c) ==
    LET o == w.heap[c]
    IN CASE o.kind = "BoolConstant" ->
               emit(p, IF o.Value = 1 THEN "OpConstantTrue" ELSE "OpConstantFalse",
                    <<Word(w.heap[o.Type].ObjectID), Word(o.ObjectID)>>)
         [] o.kind = "IntConstant" ->
               emit(p, "OpConstant", <<Word(w.heap[o.Type].ObjectID), Word(o.ObjectID),
                                       WordOf(o.Value)>>)
         [] o.kind = "FloatConstant" ->
               emit(p, "OpConstant", <<Word(w.heap[o.Type].ObjectID), Word(o.ObjectID),
                                       Lit(<<"Float32bits", o.Value>>)>>)
         [] OTHER -> PrinterPanic(p, "unsupported constant")

BinaryPrinter_emitObject(p, w, obj) ==
    CASE w.heap[obj].kind = "Function" -> BinaryPrinter_emitFunction(p, w, obj)
      [] w.heap[obj].kind \in TypeKinds -> BinaryPrinter_emitType(p, w, obj)
      [] w.heap[obj].kind \in ConstantKinds -> BinaryPrinter_emitConstant(p, w, obj)
      [] OTHER -> p

RECURSIVE BinaryPrinter_emitObjects(_, _, _, _)
\* one loop of Emit: the objects of objs that are of one of the kinds
BinaryPrinter_emitObjects(p, w, objs, kinds) ==
    IF objs = <<>> \/ p.abort # "" THEN p
    ELSE BinaryPrinter_emitObjects(
            IF w.heap[Head(objs)].kind \in kinds THEN BinaryPrinter_emitObject(p, w, Head(objs)) ELSE p,
            w, Tail(objs), kinds)

\* sort.Slice(objs, objs[i].ID() < objs[j].ID()) on the objects S
RECURSIVE SortByID(_, _)
SortByID(h, S) ==
    IF S = {} THEN <<>>
    ELSE LET a == CHOOSE x \in S : \A y \in S : h[x].ObjectID <= h[y].ObjectID
         IN <<a>> \o SortByID(h, S \ {a})

\* emitHeader: the magic number, version 1.3, the generator, the bound, the schema
BinaryPrinter_emitHeader(p, m) ==
    [p EXCEPT !.header = <<119734787, 1 * 65536 + 3 * 256, 0, m.idGenerator + 1, 0>>]

BinaryPrinter_Emit(w) ==
    LET objs == SortByID(w.heap, {GetObject(w.module, id) : id \in DOMAIN w.module.objectsByID})
    IN BinaryPrinter_emitObjects(
           BinaryPrinter_emitObjects(
               BinaryPrinter_emitObjects(
                   emitMemoryModel(emitCapabilities(BinaryPrinter_emitHeader(NewPrinter, w.module),
                                                    w.module.capabilities),
                                   w.module),
                   w, objs, TypeKinds),
               w, objs, ConstantKinds),
           w, objs, {"Function"})

\* ------------------------------------------------------------------------
\* Selector expressions on vectors (Checker.resolveVectorSwizzle)
\* ------------------------------------------------------------------------

VectorType(underlyingType, width) == [name |-> "vector", UnderlyingType |-> underlyingType, Width |-> width]

\* a selector expression: the type of its base, the characters of its
\* selector, and what resolving it gave: a TypeAndValue, the errors
\* reported and the panic, if any
NewSelector(base, swizzle) ==
    [base |-> base, swizzle |-> swizzle, pc |-> "selector",
     ret |-> TypeAndValue("", BuiltinType("")), errors |-> <<>>, abort |-> ""]

NoSelector == [NewSelector(VectorType("float32", 2), <<>>) EXCEPT !.pc = "none"]

getStyle(r) ==
    CASE r \in {"x", "y", "z", "w"} -> <<"x", "y", "z", "w">>
      [] r \in {"r", "g", "b", "a"} -> <<"r", "g", "b", "a">>
      [] r \in {"s", "t", "q", "p"} -> <<"s", "t", "q", "p">>
      [] OTHER -> <<>>

\* the loop of inRange from index i on; indexing the style past its end
\* panics
RECURSIVE inRange(_, _, _, _)
inRange(style, r, numComponents, i) ==
    IF i >= numComponents THEN "false"
    ELSE IF i >= Len(style) THEN "index out of range"
    ELSE IF style[i + 1] = r THEN "true"
    ELSE inRange(style, r, numComponents, i + 1)

\* the loop of isValidSwizzle over the characters
RECURSIVE allInRange(_, _, _)
allInRange(style, chars, numComponents) ==
    IF chars = <<>> THEN "true"
    ELSE IF inRange(style, Head(chars), numComponents, 0) # "true"
         THEN inRange(style, Head(chars), numComponents, 0)
    ELSE allInRange(style, Tail(chars), numComponents)

isValidSwizzle(swizzle, numComponents) ==
    IF Len(swizzle) = 0 THEN "false"
    ELSE allInRange(getStyle(swizzle[1]), swizzle, numComponents)

getSwizzleResultType(componentType, swizzleLength) ==
    IF swizzleLength = 1 THEN BuiltinType(componentType)
    ELSE IF componentType \notin {"float32", "float64", "int", "uint", "bool"}
         THEN BuiltinType("unexpected vector component type")
    ELSE IF swizzleLength \in {2, 3, 4} THEN VectorType(componentType, swizzleLength)
    ELSE BuiltinType("void")

resolveVectorSwizzle(e) ==
    CASE isValidSwizzle(e.swizzle, e.base.Width) = "true" ->
            [e EXCEPT !.ret = TypeAndValue("AddressModeComputedValue",
                                           getSwizzleResultType(e.base.UnderlyingType, Len(e.swizzle)))]
      [] isValidSwizzle(e.swizzle, e.base.Width) = "false" ->
            [e EXCEPT !.errors = Append(@, <<"invalid swizzle '", e.swizzle, "' for ", e.base.Width,
                                             "-component vector '", e.base, "'">>),
                      !.ret = TypeAndValue("AddressModeInvalid", BuiltinType("void"))]
      [] OTHER -> [e EXCEPT !.abort = isValidSwizzle(e.swizzle, e.base.Width)]

\* ------------------------------------------------------------------------
\* The types of the checker and their interner (Type.go)
\* ------------------------------------------------------------------------

\* A type object of the checker.  Types has the addresses of the types it
\* is made of (the parameters of a function, the element of an array, the
\* types of a tuple, the field types of a struct, the underlying type of an
\* alias), Returns the return types of a function, Names the field names
\* of a struct, Name the name of an alias.
CheckerType(kind, length, types, returns, names, name) ==
    [kind |-> kind, Length |-> length, Types |-> types, Returns |-> returns,
     Names |-> names, Name |-> name]

BuiltinIntType == CheckerType("int", 0, <<>>, <<>>, <<>>, "")

\* the interner of a SemanticInfo: heap has the type objects by address,
\* BuiltinIntType first; types is the map of the interner; log has every
\* request with the object it returned
NewTypeInterner ==
    [heap |-> <<BuiltinIntType>>, types |-> EmptyMap, log |-> <<>>, pc |-> "interner"]

NoTypeInterner == [NewTypeInterner EXCEPT !.pc = "none"]

RECURSIVE Type_HashKey(_, _)
RECURSIVE TypeKeys(_, _, _)

\* the loops of the HashKey methods: the keys of the types, with commas
TypeKeys(h, ts, i) ==
    IF i > Len(ts) THEN <<>>
    ELSE (IF i > 1 THEN <<",">> ELSE <<>>) \o Type_HashKey(h, h[ts[i]]) \o TypeKeys(h, ts, i + 1)

\* Type.HashKey
Type_HashKey(h, t) ==
    CASE t.kind = "int" -> <<"i", "n", "t">>
      [] t.kind = "func" ->
            <<"f", "u", "n", "c", "(">> \o TypeKeys(h, t.Types, 1) \o <<")">> \o
            (IF Len(t.Returns) > 0 THEN <<"(">> \o TypeKeys(h, t.Returns, 1) \o <<")">> ELSE <<>>)
      [] t.kind = "array" -> <<"[">> \o Itoa(t.Length) \o <<"]">> \o Type_HashKey(h, h[t.Types[1]])
      [] t.kind = "tuple" -> <<"(">> \o TypeKeys(h, t.Types, 1) \o <<")">>
      [] t.kind = "struct" -> <<"s", "t", "r", "u", "c", "t", "{">> \o TypeKeys(h, t.Types, 1) \o <<"}">>
      [] t.kind = "strongalias" -> <<t.Name>>

LogRequest(in, t, obj) == [in EXCEPT !.log = Append(@, [req |-> t, ret |-> obj])]

\* InternFuncType, InternArrayType, InternTupleType, InternStructType: the
\* object the map has under the key of the type, or the new object
TypeInterner_Intern(in, t) ==
    IF Type_HashKey(in.heap, t) \in DOMAIN in.types
    THEN LogRequest(in, t, in.types[Type_HashKey(in.heap, t)])
    ELSE LogRequest([in EXCEPT !.heap = Append(@, t),
                               !.types = Put(@, Type_HashKey(in.heap, t), Len(in.heap) + 1)],
                    t, Len(in.heap) + 1)

TypeInterner_InternFuncType(in, args, returns) ==
    TypeInterner_Intern(in, CheckerType("func", 0, args, returns, <<>>, ""))

TypeInterner_InternArrayType(in, length, elementType) ==
    TypeInterner_Intern(in, CheckerType("array", length, <<elementType>>, <<>>, <<>>, ""))

TypeInterner_InternTupleType(in, types) ==
    TypeInterner_Intern(in, CheckerType("tuple", 0, types, <<>>, <<>>, ""))

TypeInterner_InternStructType(in, names, types) ==
    TypeInterner_Intern(in, CheckerType("struct", 0, types, <<>>, names, ""))

\* InternStrongTypeAlias: a new object, which the map does not get
TypeInterner_InternStrongTypeAlias(in, name, underlyingType) ==
    LogRequest([in EXCEPT !.heap = Append(@, CheckerType("strongalias", 0, <<underlyingType>>, <<>>, <<>>, name))],
               CheckerType("strongalias", 0, <<underlyingType>>, <<>>, <<>>, name), Len(in.heap) + 1)

\* ------------------------------------------------------------------------
\* Dominators (spirv.DomInfo)
\* ------------------------------------------------------------------------

\* The DomInfo of a CFG.  Blocks are numbered in the order of
\* Function.Blocks, block 1 being the entry; succs has the successor list
\* of each block.  IDoms and domTimestamps are maps from blocks; passes
\* is the number of passes buildImmediateDominators made.
NewDomInfo(succs) ==
    [succs |-> succs, ReversePostOrder |-> <<>>, IDoms |-> EmptyMap, domTimestamps |-> EmptyMap,
     abort |-> "", pc |-> "cfg", passes |-> 0]

NoDomInfo == [NewDomInfo(<<>>) EXCEPT !.pc = "none"]

\* CFG.Predecessors: addEdges appends the blocks in the order of
\* Function.Blocks
RECURSIVE PredecessorsFrom(_, _, _)
PredecessorsFrom(succs, block, p) ==
    IF p > Len(succs) THEN <<>>
    ELSE (IF block \in Range(succs[p]) THEN <<p>> ELSE <<>>) \o PredecessorsFrom(succs, block, p + 1)

Predecessors(succs, block) == PredecessorsFrom(succs, block, 1)

Reverse(s) == [i \in 1..Len(s) |-> s[Len(s) + 1 - i]]

\* the loop of buildReversePostOrder: stack has the frames, order the
\* blocks that are finished
RECURSIVE postOrder(_, _, _, _)
postOrder(succs, stack, visited, order) ==
    IF stack = <<>> THEN order
    ELSE IF stack[Len(stack)].succIndex < Len(succs[stack[Len(stack)].block])
    THEN IF succs[stack[Len(stack)].block][stack[Len(stack)].succIndex + 1] \notin visited
         THEN postOrder(succs,
                        Append([stack EXCEPT ![Len(stack)].succIndex = @ + 1],
                               [block |-> succs[stack[Len(stack)].block][stack[Len(stack)].succIndex + 1],
                                succIndex |-> 0]),
                        visited \cup {succs[stack[Len(stack)].block][stack[Len(stack)].succIndex + 1]},
                        order)
         ELSE postOrder(succs, [stack EXCEPT ![Len(stack)].succIndex = @ + 1], visited, order)
    ELSE postOrder(succs, SubSeq(stack, 1, Len(stack) - 1), visited, Append(order, stack[Len(stack)].block))

buildReversePostOrder(d) ==
    [d EXCEPT !.ReversePostOrder = Reverse(postOrder(d.succs, <<[block |-> 1, succIndex |-> 0]>>, {1}, <<>>))]

\* rpoPos: the position of a block in the reverse post order, counted from
\* 1; 0 for a block that is not in it
rpoPos(rpo, b) ==
    IF b \in Range(rpo) THEN CHOOSE i \in 1..Len(rpo) : rpo[i] = b ELSE 0

\* intersect: positions are counted from 1 and 0 is the -1 of doms
RECURSIVE intersect(_, _, _)
intersect(doms, finger1, finger2) ==
    IF finger1 = finger2 THEN finger1
    ELSE IF finger1 > finger2 THEN intersect(doms, doms[finger1], finger2)
    ELSE intersect(doms, finger1, doms[finger2])

\* the first loop over the predecessors: the first that has a dominator
RECURSIVE firstProcessed(_, _, _)
firstProcessed(rpo, doms, preds) ==
    IF preds = <<>> THEN 0
    ELSE IF rpoPos(rpo, Head(preds)) # 0 /\ doms[rpoPos(rpo, Head(preds))] # 0
         THEN rpoPos(rpo, Head(preds))
    ELSE firstProcessed(rpo, doms, Tail(preds))

\* the second loop over the predecessors
RECURSIVE intersectAll(_, _, _, _)
intersectAll(rpo, doms, preds, newIdom) ==
    IF preds = <<>> THEN newIdom
    ELSE IF rpoPos(rpo, Head(preds)) = 0 \/ doms[rpoPos(rpo, Head(preds))] = 0
         THEN intersectAll(rpo, doms, Tail(preds), newIdom)
    ELSE IF rpoPos(rpo, Head(preds)) # newIdom
         THEN intersectAll(rpo, doms, Tail(preds), intersect(doms, rpoPos(rpo, Head(preds)), newIdom))
    ELSE intersectAll(rpo, doms, Tail(preds), newIdom)

\* the dominator the body of the inner loop finds for position i, 0 for none
newIdomOf(succs, rpo, doms, i) ==
    Then(firstProcessed(rpo, doms, Predecessors(succs, rpo[i])),
         LAMBDA newIdom : IF newIdom = 0 THEN 0
                          ELSE intersectAll(rpo, doms, Predecessors(succs, rpo[i]), newIdom))

\* the inner loop of buildImmediateDominators from position i on: one pass
\* over the reverse post order
RECURSIVE domsPass(_, _, _, _)
domsPass(succs, rpo, doms, i) ==
    IF i > Len(rpo) THEN doms
    ELSE Then(newIdomOf(succs, rpo, doms, i),
              LAMBDA newIdom : IF newIdom # 0
                               THEN domsPass(succs, rpo, [doms EXCEPT ![i] = newIdom], i + 1)
                               ELSE domsPass(succs, rpo, doms, i + 1))

\* the outer loop: passes until one changes nothing; the result has the
\* number of passes made
RECURSIVE domsFixpoint(_, _, _, _)
domsFixpoint(succs, rpo, doms, passes) ==
    Then(domsPass(succs, rpo, doms, 2),
         LAMBDA after : IF after = doms THEN [doms |-> doms, passes |-> passes + 1]
                        ELSE domsFixpoint(succs, rpo, after, passes + 1))

\* the end of buildImmediateDominators: IDoms from doms, the entry left out
setIDoms(d, fix) ==
    [d EXCEPT !.IDoms = [b \in {d.ReversePostOrder[i] :
                                   i \in {k \in 2..Len(d.ReversePostOrder) : fix.doms[k] # 0}} |->
                            d.ReversePostOrder[fix.doms[rpoPos(d.ReversePostOrder, b)]]],
              !.passes = fix.passes]

buildImmediateDominators(d) ==
    IF d.ReversePostOrder[1] # 1
    THEN [d EXCEPT !.abort = "entry block should be the first element of reverse post order"]
    ELSE setIDoms(d, domsFixpoint(d.succs, d.ReversePostOrder,
                                  [k \in 1..Len(d.ReversePostOrder) |-> IF k = 1 THEN 1 ELSE 0], 0))

\* adj of buildDomTimestamps: the children of a block, in the order the
\* iteration over the IDoms map came to them (order is that iteration)
RECURSIVE childrenOf(_, _, _)
childrenOf(idoms, parent, order) ==
    IF order = <<>> THEN <<>>
    ELSE (IF Head(order) \in DOMAIN idoms /\ idoms[Head(order)] = parent THEN <<Head(order)>> ELSE <<>>)
         \o childrenOf(idoms, parent, Tail(order))

\* walk of buildDomTimestamps on a block, and its loop over the children;
\* the result has the time and the timestamps set so far
RECURSIVE walk(_, _, _, _)
RECURSIVE walkChildren(_, _, _, _)

walkChildren(idoms, order, children, r) ==
    IF children = <<>> THEN r
    ELSE walkChildren(idoms, order, Tail(children), walk(idoms, order, Head(children), r))

finishWalk(block, discoveryTime, r) ==
    [r EXCEPT !.stamps = Put(@, block, [discoveryTime |-> discoveryTime, finishingTime |-> r.time])]

walk(idoms, order, cur, r) ==
    finishWalk(cur, r.time + 1,
               walkChildren(idoms, order, childrenOf(idoms, cur, order),
                            [r EXCEPT !.time = @ + 1]))

buildDomTimestamps(d, order) ==
    [d EXCEPT !.domTimestamps = walk(d.IDoms, order, 1, [time |-> 0, stamps |-> EmptyMap]).stamps]

\* an encapsulates that looks at the discovery times only
encapsulates_Discovery(a, b) ==
    a.discoveryTime <= b.discoveryTime

encapsulates(a, b) ==
    a.discoveryTime <= b.discoveryTime /\ a.finishingTime >= b.finishingTime

\* the timestamp of a block; the map gives the zero value for a block it
\* does not have
domTimestampOf(d, b) ==
    IF b \in DOMAIN d.domTimestamps THEN d.domTimestamps[b]
    ELSE [discoveryTime |-> 0, finishingTime |-> 0]

Dominates(d, parent, child) ==
    IF parent = child THEN TRUE
    ELSE encapsulates(domTimestampOf(d, parent), domTimestampOf(d, child))

BuildDomInfoTimestamps(d, order) ==
    IF d.abort # "" THEN d ELSE buildDomTimestamps(d, order)

BuildDomInfo(d, order) ==
    BuildDomInfoTimestamps(buildImmediateDominators(buildReversePostOrder(d)), order)

\* ------------------------------------------------------------------------
\* Specification of the object table: any sequence of the module's
\* operations, as a client of package spirv may call them.
\* ------------------------------------------------------------------------

vars == <<module, heap, ret, abort, lastOp, internLog,
          unit, pc, errors, semanticInfo, emitted, blockStack, entryOf, lowered,
          varsBefore, removedBlocks, serialized, checker, printed, selector, interner, dom>>

\* what emitSPIRV wrote: the printer it chose and that printer's outcome
Printed(binary, p) == [binary |-> binary, header |-> p.header, out |-> p.out, abort |-> p.abort]

pipelineVars == <<unit, pc, errors, semanticInfo, emitted, blockStack, entryOf, lowered,
                  varsBefore, removedBlocks, serialized, checker, printed, selector, interner, dom>>

World == [module |-> module, heap |-> heap, ret |-> ret, abort |-> abort,
          blockStack |-> blockStack, entryOf |-> entryOf, lowered |-> lowered]

ObjectsOfKind(kinds) == {a \in Range(module.Objects) : heap[a].kind \in kinds}

\* the oldest object of one of the kinds that is in the module, or nil
FirstOfKind(kinds) ==
    IF ObjectsOfKind(kinds) = {} THEN 0
    ELSE CHOOSE a \in ObjectsOfKind(kinds) : \A b \in ObjectsOfKind(kinds) : a <= b

\* storage classes and widths the clients of the model ask for
StorageClasses == {StorageClassPrivate, StorageClassFunction}
BitWidths == {32}

NoOp == [op |-> "", key |-> <<>>, again |-> FALSE]

InitModule ==
    /\ module = NewModule
    /\ heap = <<>>
    /\ ret = 0
    /\ abort = ""
    /\ lastOp = NoOp
    /\ internLog = EmptyMap
    /\ unit = <<>>
    /\ pc = "module"
    /\ errors = <<>>
    /\ semanticInfo = NewSemanticInfo(<<>>)
    /\ emitted = 0
    /\ blockStack = <<>>
    /\ entryOf = EmptyMap
    /\ lowered = NoLowered
    /\ varsBefore = EmptyMap
    /\ removedBlocks = {}
    /\ serialized = FALSE
    /\ checker = NewChecker(<<>>)
    /\ printed = Printed(FALSE, NewPrinter)
    /\ selector = NoSelector
    /\ interner = NoTypeInterner
    /\ dom = NoDomInfo

\* commit the outcome w of operation op to the state
Commit(w, op, key) ==
    /\ abort = ""
    /\ w.module.idGenerator <= MaxID
    /\ module' = w.module
    /\ heap' = w.heap
    /\ ret' = w.ret
    /\ abort' = w.abort
    /\ lastOp' = [op |-> op, key |-> key, again |-> key \in DOMAIN internLog]
    /\ internLog' = IF key = <<>> \/ key \in DOMAIN internLog \/ w.abort # ""
                    THEN internLog
                    ELSE Put(internLog, key, w.ret)
    /\ UNCHANGED pipelineVars

CallNewFuncParam ==
    Commit(NewFuncParam(World, FirstOfKind(TypeKinds)), "NewFuncParam", <<>>)

CallNewFunction ==
    Commit(NewFunction(World, FirstOfKind({"FuncType"}), <<>>), "NewFunction", <<>>)

CallNewVariable ==
    LET t == FirstOfKind({"PtrType"})
    IN Commit(NewVariable(World, t, IF t = 0 THEN StorageClassFunction ELSE heap[t].StorageClass),
              "NewVariable", <<>>)

CallNewValue ==
    Commit(NewValue(World, FirstOfKind(TypeKinds)), "NewValue", <<>>)

CallNewBlock ==
    \E f \in ObjectsOfKind({"Function"}) :
        Commit(NewBlock(World, f), "NewBlock", <<>>)

CallInternVoid ==
    Commit(InternVoid(World), "InternVoid", HashKey(heap, [BaseObject EXCEPT !.kind = "VoidType"]))

CallInternBool ==
    Commit(InternBool(World), "InternBool", HashKey(heap, [BaseObject EXCEPT !.kind = "BoolType"]))

CallInternInt ==
    \E b \in BitWidths, s \in BOOLEAN :
        Commit(InternInt(World, b, s), "InternInt",
               HashKey(heap, [BaseObject EXCEPT !.kind = "IntType", !.BitWidth = b, !.IsSigned = s]))

CallInternFloat ==
    \E b \in BitWidths :
        Commit(InternFloat(World, b), "InternFloat",
               HashKey(heap, [BaseObject EXCEPT !.kind = "FloatType", !.BitWidth = b]))

CallInternPtr ==
    \E to \in ObjectsOfKind(TypeKinds), sc \in StorageClasses :
        Commit(InternPtr(World, to, sc), "InternPtr",
               HashKey(heap, [BaseObject EXCEPT !.kind = "PtrType", !.To = to, !.StorageClass = sc]))

CallInternFunc ==
    \E r \in ObjectsOfKind(TypeKinds),
       args \in {<<>>} \cup {<<a>> : a \in ObjectsOfKind(TypeKinds)} :
        Commit(InternFunc(World, r, args), "InternFunc",
               HashKey(heap, [BaseObject EXCEPT !.kind = "FuncType", !.ReturnType = r, !.ArgTypes = args]))

CallInternBoolConstant ==
    \E t \in ObjectsOfKind({"BoolType"}), v \in {TRUE} :
        Commit(InternBoolConstant(World, v, t), "InternBoolConstant", ConstKey(heap, t, BoolText(v)))

CallInternIntConstant ==
    \E t \in ObjectsOfKind({"IntType"}), v \in {1} :
        Commit(InternIntConstant(World, v, t), "InternIntConstant", ConstKey(heap, t, Itoa(v)))

CallRemoveObjects ==
    \E ids \in {s \in SUBSET (1..module.idGenerator) : Cardinality(s) <= MaxRemove} :
        Commit(RemoveObjects(World, ids), "RemoveObjects", <<>>)

NextModule ==
    \/ CallNewFuncParam
    \/ CallNewFunction
    \/ CallNewVariable
    \/ CallNewValue
    \/ CallNewBlock
    \/ CallInternVoid
    \/ CallInternBool
    \/ CallInternInt
    \/ CallInternFloat
    \/ CallInternPtr
    \/ CallInternFunc
    \/ CallInternBoolConstant
    \/ CallInternIntConstant
    \/ CallRemoveObjects

SpecModule == InitModule /\ [][NextModule]_vars

\* ------------------------------------------------------------------------
\* Specification of the compilation of one unit: emitSPIRV of cmd/sabre
\* ------------------------------------------------------------------------

\* the statements without sub-statements: "return", "return 1" and
\* "var x int = 1 + 2"
Leaves == {Stmt("ret", "none", <<>>, <<>>), Stmt("ret", "expr", <<>>, <<>>),
           Stmt("var", "expr", <<>>, <<>>)}

RECURSIVE StmtsOfSize(_)
RECURSIVE BodiesOfSize(_)

\* the statements made of n statements: a leaf, or "if true {body} else {els}"
StmtsOfSize(n) ==
    (IF n = 1 THEN Leaves ELSE {}) \cup
    UNION {{Stmt("if", "none", b, e) : b \in BodiesOfSize(k), e \in BodiesOfSize(n - 1 - k)} :
              k \in 0..(n - 1)}

\* the statement lists made of n statements in all
BodiesOfSize(n) ==
    IF n = 0 THEN {<<>>}
    ELSE UNION {{<<st>> \o r : st \in StmtsOfSize(k), r \in BodiesOfSize(n - k)} : k \in 1..n}

\* the statement lists by their number of statements
Bodies == [n \in 0..(MaxNodes - 1) |-> BodiesOfSize(n)]

\* the declarations whose body is made of n statements
DeclsOfSize(n) ==
    {FuncDecl(r, TRUE, b) : r \in {<<>>, <<"int">>}, b \in Bodies[n]} \cup
    (IF n = 0 THEN {FuncDecl(<<>>, FALSE, <<>>)} \cup {ConstDecl(i) : i \in 0..MaxDecls}
     ELSE {})

\* the number of statements of a statement list, sub-statements included
RECURSIVE StmtCount(_)
StmtCount(stmts) ==
    IF stmts = <<>> THEN 0
    ELSE 1 + StmtCount(Head(stmts).body) + StmtCount(Head(stmts).els) + StmtCount(Tail(stmts))

RECURSIVE UnitStmtCount(_)
UnitStmtCount(decls) ==
    IF decls = <<>> THEN 0 ELSE StmtCount(Head(decls).Body) + UnitStmtCount(Tail(decls))

Init ==
    /\ module = NewModule
    /\ heap = <<>>
    /\ ret = 0
    /\ abort = ""
    /\ lastOp = NoOp
    /\ internLog = EmptyMap
    /\ unit = <<>>
    /\ pc = "start"
    /\ errors = <<>>
    /\ semanticInfo = NewSemanticInfo(<<>>)
    /\ emitted = 0
    /\ blockStack = <<>>
    /\ entryOf = EmptyMap
    /\ lowered = NoLowered
    /\ varsBefore = EmptyMap
    /\ removedBlocks = {}
    /\ serialized = FALSE
    /\ checker = NewChecker(<<>>)
    /\ printed = Printed(FALSE, NewPrinter)
    /\ selector = NoSelector
    /\ interner = NoTypeInterner
    /\ dom = NoDomInfo

\* the emitter's outcome w becomes the state
Apply(w) ==
    /\ module' = w.module
    /\ heap' = w.heap
    /\ ret' = w.ret
    /\ abort' = w.abort
    /\ blockStack' = w.blockStack
    /\ entryOf' = w.entryOf
    /\ lowered' = w.lowered

\* unit.Scan(): the source has an invalid token, or not
UnitScan ==
    /\ pc = "start"
    /\ \E ok \in BOOLEAN :
          /\ pc' = IF ok THEN "scanned" ELSE "done"
          /\ errors' = IF ok THEN errors ELSE Append(errors, "invalid token")
    /\ UNCHANGED <<module, heap, ret, abort, lastOp, internLog, unit, semanticInfo, emitted,
                   blockStack, entryOf, lowered, varsBefore, removedBlocks, serialized, checker, printed, selector, interner, dom>>

\* unit.Parse() stops on a syntax error
UnitParseError ==
    /\ pc = "scanned"
    /\ pc' = "done"
    /\ errors' = Append(errors, "syntax error")
    /\ UNCHANGED <<module, heap, ret, abort, lastOp, internLog, unit, semanticInfo, emitted,
                   blockStack, entryOf, lowered, varsBefore, removedBlocks, serialized, checker, printed, selector, interner, dom>>

\* unit.Parse(): one round of the parser's loop over the declarations of
\* the file
UnitParseDecl ==
    /\ pc = "scanned"
    /\ Len(unit) < MaxDecls
    /\ \E n \in 0..(MaxNodes - (Len(unit) + 1) - UnitStmtCount(unit)) :
          \E decl \in DeclsOfSize(n) : unit' = Append(unit, decl)
    /\ UNCHANGED <<module, heap, ret, abort, lastOp, internLog, pc, errors, semanticInfo,
                   emitted, blockStack, entryOf, lowered, varsBefore, removedBlocks, serialized, checker, printed, selector, interner, dom>>

\* unit.Parse() reaches the end of the file
UnitParse ==
    /\ pc = "scanned"
    /\ pc' = "parsed"
    /\ UNCHANGED <<module, heap, ret, abort, lastOp, internLog, unit, errors, semanticInfo,
                   emitted, blockStack, entryOf, lowered, varsBefore, removedBlocks, serialized, checker, printed, selector, interner, dom>>

\* unit.Check(); emitSPIRV writes the errors out and goes on
UnitCheck ==
    /\ pc = "parsed"
    /\ semanticInfo' = Check(unit)
    /\ errors' = errors \o Check(unit).errors
    /\ abort' = Check(unit).abort
    /\ pc' = IF Check(unit).abort # "" THEN "done" ELSE "checked"
    /\ UNCHANGED <<module, heap, ret, lastOp, internLog, unit, emitted,
                   blockStack, entryOf, lowered, varsBefore, removedBlocks, serialized, checker, printed, selector, interner, dom>>

\* unit.EmitSPIRV(): no module for a unit with errors; otherwise a new
\* emitter, whose Emit() starts with the two capabilities
UnitEmitSPIRV ==
    /\ pc = "checked"
    /\ pc' = IF Len(errors) > 0 THEN "nomodule" ELSE "emitting"
    /\ module' = IF Len(errors) > 0 THEN module
                 ELSE AddCapability(AddCapability(World, CapabilityShader), CapabilityLinkage).module
    /\ UNCHANGED <<heap, ret, abort, lastOp, internLog, unit, errors, semanticInfo,
                   emitted, blockStack, entryOf, lowered, varsBefore, removedBlocks, serialized, checker, printed, selector, interner, dom>>

\* one round of the loop of IREmitter.Emit over the reachable symbols
EmitSymbol ==
    /\ pc = "emitting"
    /\ emitted < Len(semanticInfo.ReachableSymbols)
    /\ LET sym == semanticInfo.ReachableSymbols[emitted + 1]
           w == emitSymbol(World, unit[sym], semanticInfo.typeOf[sym])
       IN /\ Apply(w)
          /\ pc' = IF w.abort # "" THEN "done" ELSE "emitting"
    /\ emitted' = emitted + 1
    /\ UNCHANGED <<lastOp, internLog, unit, errors, semanticInfo,
                   varsBefore, removedBlocks, serialized, checker, printed, selector, interner, dom>>

\* RewriteIR, first pass
RunPassPullLocalVarsToFuncEntry ==
    /\ pc = "emitting"
    /\ emitted = Len(semanticInfo.ReachableSymbols)
    /\ LET w == PassPullLocalVarsToFuncEntry(World)
       IN /\ Apply(w)
          /\ pc' = IF w.abort # "" THEN "done" ELSE "pulled"
    /\ varsBefore' = [f \in Range(Functions(World)) |-> CollectVariables(heap, heap[f].Blocks)]
    /\ UNCHANGED <<lastOp, internLog, unit, errors, semanticInfo, emitted,
                   removedBlocks, serialized, checker, printed, selector, interner, dom>>

\* RewriteIR, second pass
RunPassRemoveUnreachableBlocks ==
    /\ pc = "pulled"
    /\ LET w == PassRemoveUnreachableBlocks(World)
       IN /\ Apply(w)
          /\ pc' = IF w.abort # "" THEN "done" ELSE "pruned"
          /\ removedBlocks' = UNION {Range(heap[f].Blocks) \ Range(w.heap[f].Blocks) :
                                        f \in Range(Functions(World))}
    /\ UNCHANGED <<lastOp, internLog, unit, errors, semanticInfo, emitted,
                   varsBefore, serialized, checker, printed, selector, interner, dom>>

\* RewriteIR, third pass
RunPassTerminateBlocks ==
    /\ pc = "pruned"
    /\ LET w == PassTerminateBlocks(World)
       IN /\ Apply(w)
          /\ pc' = IF w.abort # "" THEN "done" ELSE "rewritten"
    /\ UNCHANGED <<lastOp, internLog, unit, errors, semanticInfo, emitted,
                   varsBefore, removedBlocks, serialized, checker, printed, selector, interner, dom>>

\* emitSPIRV of cmd/sabre: the binary or the text printer, as the command
\* line asks, runs Emit() on what unit.EmitSPIRV() returned; without a module
\* the binary printer stops in emitHeader and the text printer in
\* emitCapabilities
Serialize ==
    /\ pc \in {"rewritten", "nomodule"}
    /\ \E binary \in BOOLEAN :
          printed' = Printed(binary,
                             IF pc = "nomodule"
                             THEN PrinterPanic([NewPrinter EXCEPT !.header =
                                                   IF binary THEN <<119734787, 1 * 65536 + 3 * 256, 0>>
                                                   ELSE <<>>],
                                               "nil pointer dereference")
                             ELSE IF binary THEN BinaryPrinter_Emit(World)
                             ELSE TextPrinter_Emit(World))
    /\ serialized' = TRUE
    /\ abort' = IF pc = "nomodule" THEN "nil pointer dereference" ELSE abort
    /\ pc' = "done"
    /\ UNCHANGED <<module, heap, ret, lastOp, internLog, unit, errors, semanticInfo, emitted,
                   blockStack, entryOf, lowered, varsBefore, removedBlocks, checker, selector, interner, dom>>

Next ==
    \/ UnitScan
    \/ UnitParseError
    \/ UnitParseDecl
    \/ UnitParse
    \/ UnitCheck
    \/ UnitEmitSPIRV
    \/ EmitSymbol
    \/ RunPassPullLocalVarsToFuncEntry
    \/ RunPassRemoveUnreachableBlocks
    \/ RunPassTerminateBlocks
    \/ Serialize

Spec == Init /\ [][Next]_vars

\* ------------------------------------------------------------------------
\* Specification of the lowering of local variables: the compilation of a
\* parsed unit of one function whose body declares local variables
\* ------------------------------------------------------------------------

\* most local variables of the function
MaxLocals == 3

\* the initialisers of a local variable
Initialisers == {"none", "literal", "expr", "ident"}

\* the bodies of n declarations; an identifier names the variable of the
\* first declaration, which therefore is not initialised from one
RECURSIVE LocalsOfLen(_)
LocalsOfLen(n) ==
    IF n = 0 THEN {<<>>}
    ELSE {Append(r, Stmt("var", i, <<>>, <<>>)) :
             r \in LocalsOfLen(n - 1), i \in IF n = 1 THEN Initialisers \ {"ident"} ELSE Initialisers}

InitLocals ==
    /\ module = NewModule
    /\ heap = <<>>
    /\ ret = 0
    /\ abort = ""
    /\ lastOp = NoOp
    /\ internLog = EmptyMap
    /\ \E n \in 1..MaxLocals : \E b \in LocalsOfLen(n) : unit = <<FuncDecl(<<>>, TRUE, b)>>
    /\ pc = "parsed"
    /\ errors = <<>>
    /\ semanticInfo = NewSemanticInfo(<<>>)
    /\ emitted = 0
    /\ blockStack = <<>>
    /\ entryOf = EmptyMap
    /\ lowered = NoLowered
    /\ varsBefore = EmptyMap
    /\ removedBlocks = {}
    /\ serialized = FALSE
    /\ checker = NewChecker(<<>>)
    /\ printed = Printed(FALSE, NewPrinter)
    /\ selector = NoSelector
    /\ interner = NoTypeInterner
    /\ dom = NoDomInfo

NextLocals ==
    \/ UnitCheck
    \/ UnitEmitSPIRV
    \/ EmitSymbol
    \/ RunPassPullLocalVarsToFuncEntry
    \/ RunPassRemoveUnreachableBlocks
    \/ RunPassTerminateBlocks
    \/ Serialize

SpecLocals == InitLocals /\ [][NextLocals]_vars

\* ------------------------------------------------------------------------
\* Properties of the compilation of one unit
\* ------------------------------------------------------------------------

\* RewriteIR has returned
Rewritten == pc = "rewritten" \/ (pc = "done" /\ serialized /\ abort = "")

\* the checker has returned without an error
CheckerPassed ==
    /\ pc \notin {"module", "start", "scanned", "parsed"}
    /\ Len(errors) = 0
    /\ semanticInfo.abort = ""

\* the emitter is at work on the module or has handed it over
Lowered == pc \in {"emitting", "pulled", "pruned"} \/ Rewritten

FunctionsOfModule == {a \in Range(module.Objects) : heap[a].kind = "Function"}

LastInstruction(b) == heap[b].Instructions[Len(heap[b].Instructions)]

\* C1: once RewriteIR has returned, every block of every function of the
\* module holds at least one instruction and its last instruction is a
\* terminator.
C1_BlocksTerminated ==
    Rewritten =>
        \A f \in FunctionsOfModule : \A b \in Range(heap[f].Blocks) :
            /\ Len(heap[b].Instructions) > 0
            /\ LastInstruction(b).op \in
                  {"OpReturn", "OpReturnValue", "OpBranch", "OpBranchConditional",
                   "OpSwitch", "OpUnreachable"}

\* the pass closed a block of a function that returns a value, and a block
\* of a void function
C1_Witness ==
    /\ pc = "rewritten"
    /\ \E f \in FunctionsOfModule : \E b \in Range(heap[f].Blocks) :
          LastInstruction(b).op = "OpUnreachable"
    /\ \E f \in FunctionsOfModule :
          /\ Len(heap[f].Blocks) > 1
          /\ LastInstruction(heap[f].Blocks[Len(heap[f].Blocks)]).op = "OpReturn"

\* the blocks a block names as successors: the targets of its last
\* instruction and of a merge instruction right before it
TargetsOf(b) ==
    {t \in 1..Len(heap) : /\ heap[t].kind = "Block"
                          /\ heap[t].ObjectID \in Range(BlockSuccessorIDs(heap, b))}

RECURSIVE ReachableFrom(_)
ReachableFrom(S) ==
    IF UNION {TargetsOf(b) : b \in S} \subseteq S THEN S
    ELSE ReachableFrom(S \cup UNION {TargetsOf(b) : b \in S})

\* C2: once the unreachable blocks are removed, every block left in a
\* function's block list is reachable from the first block of the list
\* along successor edges, merge and continue edges included.
C2_AllBlocksReachable ==
    (pc = "pruned" \/ Rewritten) =>
        \A f \in FunctionsOfModule :
            heap[f].Blocks # <<>> =>
                Range(heap[f].Blocks) \subseteq ReachableFrom({heap[f].Blocks[1]})

\* blocks were removed, and a block that only a merge instruction names
\* has stayed
C2_Witness ==
    /\ pc = "pruned"
    /\ removedBlocks # {}
    /\ \E f \in FunctionsOfModule : \E b \in Range(heap[f].Blocks) :
          /\ b # heap[f].Blocks[1]
          /\ \A a \in Range(heap[f].Blocks) :
                Len(heap[a].Instructions) > 0 =>
                    heap[b].ObjectID \notin Range(SuccessorIDs(LastInstruction(a)))

\* C3: a block that the unreachable-block pass deleted from a function is
\* gone from the module too: it is not in the object list and GetObject
\* on its ID returns nothing.
C3_RemovedBlocksLeaveModule ==
    (pc = "pruned" \/ Rewritten) =>
        \A b \in removedBlocks :
            /\ b \notin Range(module.Objects)
            /\ GetObject(module, heap[b].ObjectID) = 0

\* C4: once the variables are hoisted, the Variable instructions that the
\* blocks of a function held (block after block, in instruction order) are
\* the first instructions of its entry block, in that order, and there is
\* no other Variable instruction in the function.
C4_VariablesInEntry ==
    (pc \in {"pulled", "pruned"} \/ Rewritten) =>
        \A f \in FunctionsOfModule :
            /\ f \in DOMAIN varsBefore
            /\ Len(heap[heap[f].Blocks[1]].Instructions) >= Len(varsBefore[f])
            /\ SubSeq(heap[heap[f].Blocks[1]].Instructions, 1, Len(varsBefore[f])) = varsBefore[f]
            /\ \A i \in (Len(varsBefore[f]) + 1)..Len(heap[heap[f].Blocks[1]].Instructions) :
                  heap[heap[f].Blocks[1]].Instructions[i].op # "OpVariable"
            /\ \A b \in Range(heap[f].Blocks) \ {heap[f].Blocks[1]} :
                  \A i \in 1..Len(heap[b].Instructions) :
                      heap[b].Instructions[i].op # "OpVariable"

\* two variables were hoisted, one of them out of a block that is not the
\* entry block (its Store stayed behind)
C4_Witness ==
    /\ pc = "rewritten"
    /\ \E f \in FunctionsOfModule :
          /\ Len(varsBefore[f]) >= 2
          /\ \E b \in Range(heap[f].Blocks) \ {heap[f].Blocks[1]} :
                \E i \in 1..Len(heap[b].Instructions) :
                    /\ heap[b].Instructions[i].op = "OpStore"
                    /\ heap[b].Instructions[i].ids[1] = varsBefore[f][2].ids[2]

\* C5: a stage runs only if the stage before it reported no error: when
\* the unit has errors there is no lowering, no module and no
\* serialization.
C5_StagesGateOnErrors ==
    Len(errors) > 0 => (~serialized /\ ~Lowered /\ heap = <<>>)

\* C6: a unit that passed the checker is lowered and rewritten without a
\* panic.
C6_LoweringNeverPanics ==
    CheckerPassed => abort = ""

\* C10: every function of the module has at least one block, and the
\* first block of its list is the entry block that emitFunc created, during
\* lowering and after RewriteIR.
C10_EntryBlockFirst ==
    Lowered =>
        \A f \in FunctionsOfModule :
            /\ Len(heap[f].Blocks) >= 1
            /\ f \in DOMAIN entryOf
            /\ heap[f].Blocks[1] = entryOf[f]

\* RewriteIR has rebuilt the entry block of a function and removed blocks
C10_Witness ==
    /\ pc = "rewritten"
    /\ removedBlocks # {}
    /\ \E f \in FunctionsOfModule :
          /\ varsBefore[f] # <<>>
          /\ heap[f].Blocks[1] = entryOf[f]

\* ------------------------------------------------------------------------
\* Properties of the object table
\* ------------------------------------------------------------------------

NothingRemoved == Range(module.Objects) = 1..Len(heap)

\* C7: no two objects of the module's object list have the same ID, and
\* GetObject on the ID of an object of the list returns that object.
C7_UniqueAndDiscoverable ==
    \A i \in 1..Len(module.Objects) :
        /\ \A j \in 1..Len(module.Objects) :
              heap[module.Objects[i]].ObjectID = heap[module.Objects[j]].ObjectID => i = j
        /\ heap[module.Objects[i]].ObjectID \in DOMAIN module.objectsByID
        /\ module.objectsByID[heap[module.Objects[i]].ObjectID] < Len(module.Objects)
        /\ GetObject(module, heap[module.Objects[i]].ObjectID) = module.Objects[i]

\* RemoveObjects took out an object that was in front of one that stays
C7_Witness ==
    /\ abort = ""
    /\ lastOp.op = "RemoveObjects"
    /\ Len(module.Objects) >= 1
    /\ \E a \in 1..Len(heap) : a \notin Range(module.Objects) /\ a < module.Objects[1]

\* C8: the IDs of the objects ever created by a module are strictly
\* increasing in creation order, whatever was removed in between, and none
\* is above the counter.
C8_IDsStrictlyIncrease ==
    \A a \in 1..Len(heap) :
        /\ heap[a].ObjectID <= module.idGenerator
        /\ heap[a].ObjectID >= 1
        /\ \A b \in 1..Len(heap) : a < b => heap[a].ObjectID < heap[b].ObjectID

\* an object is created after the removal of another one
C8_Witness ==
    /\ abort = ""
    /\ lastOp.op \in {"NewValue", "NewBlock", "InternInt"}
    /\ ret = Len(heap)
    /\ \E a \in 1..Len(heap) : a \notin Range(module.Objects)

\* C9: as long as nothing was removed, an Intern* request for a type key
\* that was requested before returns the object of the first request,
\* allocates no ID and adds no object.
C9_InternIdempotent ==
    [][(/\ NothingRemoved
        /\ lastOp'.op \in {"InternVoid", "InternBool", "InternInt", "InternFloat", "InternPtr", "InternFunc"}
        /\ lastOp'.key \in DOMAIN internLog)
       => (/\ abort' = ""
           /\ ret' = internLog[lastOp'.key]
           /\ heap[ret'].kind \in TypeKinds
           /\ module' = module
           /\ heap' = heap)]_vars

\* a pointer type is requested a second time
C9_Witness ==
    /\ abort = ""
    /\ NothingRemoved
    /\ lastOp.op = "InternPtr"
    /\ lastOp.again
    /\ ret = internLog[lastOp.key]

InternOps ==
    {"InternVoid", "InternBool", "InternInt", "InternFloat", "InternPtr", "InternFunc",
     "InternBoolConstant", "InternIntConstant"}

\* C29: whatever was removed, an Intern* request for a type or constant
\* whose object is still in the module's object list returns that object,
\* and neither panics nor returns another object.
C29_InternAfterRemove ==
    [][(/\ lastOp'.op \in InternOps
        /\ lastOp'.key \in DOMAIN internLog
        /\ internLog[lastOp'.key] \in Range(module.Objects))
       => (/\ abort' = ""
           /\ ret' = internLog[lastOp'.key])]_vars

\* ------------------------------------------------------------------------
\* Specification of the checker: Check on a file of global declarations
\* ------------------------------------------------------------------------

\* most global declarations of a checked file
MaxSymbols == 2

\* most call statements of a function body
MaxCalls == 1

RECURSIVE CallsOfLen(_)
CallsOfLen(n) ==
    IF n = 0 THEN {<<>>} ELSE {<<m>> \o r : m \in Names, r \in CallsOfLen(n - 1)}

GlobalDecls ==
    {GlobalDecl("const", n, r) : n \in Names, r \in {<<>>} \cup {<<m>> : m \in Names}} \cup
    {GlobalDecl("type", n, <<m>>) : n \in Names, m \in Names \cup {"int"}} \cup
    UNION {{GlobalDecl("func", n, r) : n \in Names, r \in CallsOfLen(k)} : k \in 0..MaxCalls}

othersVars == <<module, heap, ret, abort, lastOp, internLog, unit, pc, errors, semanticInfo,
                emitted, blockStack, entryOf, lowered, varsBefore, removedBlocks, serialized, printed, selector, interner, dom>>

InitChecker ==
    /\ module = NewModule
    /\ heap = <<>>
    /\ ret = 0
    /\ abort = ""
    /\ lastOp = NoOp
    /\ internLog = EmptyMap
    /\ unit = <<>>
    /\ pc = "checker"
    /\ errors = <<>>
    /\ semanticInfo = NewSemanticInfo(<<>>)
    /\ emitted = 0
    /\ blockStack = <<>>
    /\ entryOf = EmptyMap
    /\ lowered = NoLowered
    /\ varsBefore = EmptyMap
    /\ removedBlocks = {}
    /\ serialized = FALSE
    /\ printed = Printed(FALSE, NewPrinter)
    /\ selector = NoSelector
    /\ interner = NoTypeInterner
    /\ dom = NoDomInfo
    /\ \E n \in 0..MaxSymbols : \E decls \in [1..n -> GlobalDecls] : checker = NewChecker(decls)

\* shallowWalk: one round of the loop over the declarations of the file
ShallowWalkDecl ==
    /\ pc = "checker"
    /\ checker.pc = "shallowWalk"
    /\ checker.next <= Len(checker.decls)
    /\ checker' = [addSymbol(checker, checker.next) EXCEPT !.next = @ + 1]
    /\ UNCHANGED othersVars

\* shallowWalk returns, and Check starts its loop over the global symbols
ShallowWalkReturn ==
    /\ pc = "checker"
    /\ checker.pc = "shallowWalk"
    /\ checker.next > Len(checker.decls)
    /\ checker' = [checker EXCEPT !.pc = "Check", !.next = 1]
    /\ UNCHANGED othersVars

\* a loop of Check that stays on the symbol it is at
nextSymbol_Same(c) ==
    c

\* the loop of Check moves on to the next symbol of the global scope
nextSymbol(c) ==
    [c EXCEPT !.next = @ + 1]

\* Check: one round of the loop, a call of resolveSymbol
CheckResolveSymbol ==
    /\ pc = "checker"
    /\ checker.pc = "Check"
    /\ checker.stack = <<>>
    /\ checker.next <= Len(checker.Scopes[0].Symbols)
    /\ checker' = nextSymbol(Call(checker, checker.Scopes[0].Symbols[checker.next]))
    /\ UNCHANGED othersVars

\* Check returns
CheckReturn ==
    /\ pc = "checker"
    /\ checker.pc = "Check"
    /\ checker.stack = <<>>
    /\ checker.next > Len(checker.Scopes[0].Symbols)
    /\ checker' = [leaveScope(checker) EXCEPT !.pc = "done"]
    /\ UNCHANGED othersVars

\* resolveSymbol up to its switch: the answer for a Resolved or a Resolving
\* symbol, the mark Resolving otherwise
ResolveSymbolEnter ==
    /\ pc = "checker"
    /\ checker.stack # <<>>
    /\ Top(checker).pc = "enter"
    /\ LET sym == Top(checker).sym
           c == [checker EXCEPT !.lastCall = [sym |-> sym, state |-> ResolveState(checker, sym)]]
       IN checker' =
            CASE ResolveState(c, sym) = "ResolveStateResolved" -> Return([c EXCEPT !.ret = TypeOf(c, sym)])
              [] ResolveState(c, sym) = "ResolveStateResolving" -> Return(cyclicDependency(c, sym))
              [] OTHER -> SetTop(SetResolveState(c, sym, "ResolveStateResolving"),
                                 [Top(c) EXCEPT !.pc = "dispatch"])
    /\ UNCHANGED othersVars

\* resolveFuncSymbol
ResolveFuncSymbol ==
    /\ pc = "checker"
    /\ checker.stack # <<>>
    /\ Top(checker).pc = "dispatch"
    /\ checker.decls[Top(checker).sym].kind = "func"
    /\ LET sym == Top(checker).sym
           scope == createScopeFor(checker, sym, currentScope(checker))
           c == NewTypeAndValue(
                    leaveScope(processFields(enterScope(scope, sym), sym)),
                    TypeAndValue("AddressModeType",
                                 FuncType([k \in 1..Len(checker.decls[sym].params) |-> typeFromName("int")],
                                          <<>>)))
       IN checker' = SetTop(c, [Top(c) EXCEPT !.pc = "dispatched", !.symType = c.ret])
    /\ UNCHANGED othersVars

\* resolveIdentifierExpr on the name: an error for an undeclared name, a
\* call of resolveSymbol otherwise
resolveIdentifierExpr(c, name) ==
    IF Find(c.Scopes, currentScope(c), name) = 0
    THEN NewTypeAndValue(error(LogFind(c, name), NewError(Top(c).sym, <<"undeclared identifier">>, <<>>)),
                         invalidType)
    ELSE Call(LogFind(c, name), Find(c.Scopes, currentScope(c), name))

\* resolveConstSymbol up to the value of the initialiser
ResolveConstSymbol ==
    /\ pc = "checker"
    /\ checker.stack # <<>>
    /\ Top(checker).pc = "dispatch"
    /\ checker.decls[Top(checker).sym].kind = "const"
    /\ LET c == SetTop(checker, [Top(checker) EXCEPT !.pc = "rhs"])
       IN checker' =
            IF c.decls[Top(c).sym].refs = <<>>
            THEN NewTypeAndValue(c, TypeAndValue("AddressModeConstant", BuiltinType("int")))
            ELSE resolveIdentifierExpr(c, c.decls[Top(c).sym].refs[1])
    /\ UNCHANGED othersVars

\* resolveConstSymbol from the value of the initialiser on
ResolveConstSymbolReturn ==
    /\ pc = "checker"
    /\ checker.stack # <<>>
    /\ Top(checker).pc = "rhs"
    /\ LET c == IF checker.tavHeap[checker.ret].Mode # "AddressModeConstant"
                THEN NewTypeAndValue(
                        error(checker, NewError(Top(checker).sym,
                                                <<"constant declaration requires a constant expression">>,
                                                <<>>)),
                        invalidType)
                ELSE NewTypeAndValue(checker, TypeAndValue("AddressModeConstant",
                                                           checker.tavHeap[checker.ret].Type))
       IN checker' = SetTop(c, [Top(c) EXCEPT !.pc = "dispatched", !.symType = c.ret])
    /\ UNCHANGED othersVars

\* resolveTypeSymbol up to the value of the type expression, a NamedTypeExpr
ResolveTypeSymbol ==
    /\ pc = "checker"
    /\ checker.stack # <<>>
    /\ Top(checker).pc = "dispatch"
    /\ checker.decls[Top(checker).sym].kind = "type"
    /\ LET c == SetTop(checker, [Top(checker) EXCEPT !.pc = "typeExpr"])
           name == c.decls[Top(c).sym].refs[1]
       IN checker' =
            IF Find(c.Scopes, currentScope(c), name) # 0
            THEN Call(LogFind(c, name), Find(c.Scopes, currentScope(c), name))
            ELSE NewTypeAndValue(LogFind(c, name), TypeAndValue("AddressModeType", typeFromName(name)))
    /\ UNCHANGED othersVars

\* resolveTypeSymbol from the value of the type expression on: the alias is
\* written into the TypeAndValue the expression returned
ResolveTypeSymbolReturn ==
    /\ pc = "checker"
    /\ checker.stack # <<>>
    /\ Top(checker).pc = "typeExpr"
    /\ LET c == [checker EXCEPT !.tavHeap[checker.ret].Type =
                                    InternStrongTypeAlias(checker.decls[Top(checker).sym].name, @)]
       IN checker' = SetTop(c, [Top(c) EXCEPT !.pc = "dispatched", !.symType = c.ret])
    /\ UNCHANGED othersVars

\* resolveSymbol after its first switch: the mark Resolved, SetTypeOf, and
\* for a function the entry into resolveFuncBody
ResolveSymbolResolved ==
    /\ pc = "checker"
    /\ checker.stack # <<>>
    /\ Top(checker).pc = "dispatched"
    /\ LET sym == Top(checker).sym
           c == [SetResolveState(checker, sym, "ResolveStateResolved")
                 EXCEPT !.typeOf[sym] = Top(checker).symType]
       IN checker' =
            IF c.decls[sym].kind = "func"
            THEN SetTop(enterScope(c, sym), [Top(c) EXCEPT !.pc = "body", !.k = 1])
            ELSE SetTop(c, [Top(c) EXCEPT !.pc = "return"])
    /\ UNCHANGED othersVars

\* resolveFuncBody: one round of the loop over the statements, up to the
\* value of the called expression
ResolveFuncBodyStmt ==
    /\ pc = "checker"
    /\ checker.stack # <<>>
    /\ Top(checker).pc = "body"
    /\ Top(checker).k <= Len(checker.decls[Top(checker).sym].refs)
    /\ checker' = resolveIdentifierExpr(SetTop(checker, [Top(checker) EXCEPT !.pc = "called"]),
                                        checker.decls[Top(checker).sym].refs[Top(checker).k])
    /\ UNCHANGED othersVars

\* resolveCallExpr from the value of the called expression on
ResolveCallExpr ==
    /\ pc = "checker"
    /\ checker.stack # <<>>
    /\ Top(checker).pc = "called"
    /\ LET c == IF checker.tavHeap[checker.ret].Type.name # "func"
                THEN error(checker, NewError(Top(checker).sym, <<"invalid call expression">>, <<>>))
                ELSE checker
       IN checker' = SetTop(c, [Top(c) EXCEPT !.pc = "body", !.k = @ + 1])
    /\ UNCHANGED othersVars

\* resolveSymbol returns: resolveFuncBody is over for a function, and a
\* symbol of the global scope is reachable
ResolveSymbolReturn ==
    /\ pc = "checker"
    /\ checker.stack # <<>>
    /\ \/ Top(checker).pc = "return"
       \/ /\ Top(checker).pc = "body"
          /\ Top(checker).k > Len(checker.decls[Top(checker).sym].refs)
    /\ LET sym == Top(checker).sym
           c == IF Top(checker).pc = "body" THEN leaveScope(checker) ELSE checker
       IN checker' = Return([appendReachable(c, sym) EXCEPT !.ret = Top(checker).symType])
    /\ UNCHANGED othersVars

NextChecker ==
    \/ ShallowWalkDecl
    \/ ShallowWalkReturn
    \/ CheckResolveSymbol
    \/ CheckReturn
    \/ ResolveSymbolEnter
    \/ ResolveFuncSymbol
    \/ ResolveConstSymbol
    \/ ResolveConstSymbolReturn
    \/ ResolveTypeSymbol
    \/ ResolveTypeSymbolReturn
    \/ ResolveSymbolResolved
    \/ ResolveFuncBodyStmt
    \/ ResolveCallExpr
    \/ ResolveSymbolReturn

SpecChecker == InitChecker /\ [][NextChecker]_vars

\* the scheduler runs the one goroutine of the compiler until it returns
FairSpecChecker == SpecChecker /\ WF_vars(NextChecker)

\* Check is called a second time on the unit; first keeps what the
\* SemanticInfo of the first call said
CheckAgain ==
    /\ pc = "checker"
    /\ checker.pc = "done"
    /\ checker.round = 1
    /\ checker' = [enterCheck(checker) EXCEPT !.first = SemanticInfoOf(checker), !.round = 2,
                                               !.pc = "shallowWalk", !.next = 1]
    /\ UNCHANGED othersVars

NextCheckTwice ==
    \/ NextChecker
    \/ CheckAgain

SpecCheckTwice == InitChecker /\ [][NextCheckTwice]_vars

\* ------------------------------------------------------------------------
\* Specification of the selectors: resolveSelectorExpr on a selector of a
\* vector
\* ------------------------------------------------------------------------

\* most characters of a selector
MaxSwizzle == 5

\* the characters of a selector: of xyzw, of rgba, of stqp, and of none
SwizzleChars == {"x", "w", "r", "q", "k"}

RECURSIVE SwizzlesOfLen(_)
SwizzlesOfLen(n) ==
    IF n = 0 THEN {<<>>} ELSE {<<ch>> \o r : ch \in SwizzleChars, r \in SwizzlesOfLen(n - 1)}

InitSelector ==
    /\ module = NewModule
    /\ heap = <<>>
    /\ ret = 0
    /\ abort = ""
    /\ lastOp = NoOp
    /\ internLog = EmptyMap
    /\ unit = <<>>
    /\ pc = "selector"
    /\ errors = <<>>
    /\ semanticInfo = NewSemanticInfo(<<>>)
    /\ emitted = 0
    /\ blockStack = <<>>
    /\ entryOf = EmptyMap
    /\ lowered = NoLowered
    /\ varsBefore = EmptyMap
    /\ removedBlocks = {}
    /\ serialized = FALSE
    /\ checker = NewChecker(<<>>)
    /\ printed = Printed(FALSE, NewPrinter)
    /\ \E width \in {2, 3, 4} : \E n \in 0..MaxSwizzle : \E swizzle \in SwizzlesOfLen(n) :
          selector = NewSelector(VectorType("float32", width), swizzle)
    /\ interner = NoTypeInterner
    /\ dom = NoDomInfo

\* resolveSelectorExpr on a base of vector type
ResolveSelectorExpr ==
    /\ pc = "selector"
    /\ selector.pc = "selector"
    /\ selector' = [resolveVectorSwizzle(selector) EXCEPT !.pc = "done"]
    /\ UNCHANGED <<module, heap, ret, abort, lastOp, internLog, unit, pc, errors, semanticInfo, emitted,
                   blockStack, entryOf, lowered, varsBefore, removedBlocks, serialized, checker, printed,
                   interner, dom>>

SpecSelector == InitSelector /\ [][ResolveSelectorExpr]_vars

\* ------------------------------------------------------------------------
\* Specification of the type interner: any sequence of requests, as the
\* checker may make them during one Check
\* ------------------------------------------------------------------------

\* most requests
MaxRequests == 3

\* the lengths of the requested arrays
ArrayLengths == {1, 2}

InitInterner ==
    /\ module = NewModule
    /\ heap = <<>>
    /\ ret = 0
    /\ abort = ""
    /\ lastOp = NoOp
    /\ internLog = EmptyMap
    /\ unit = <<>>
    /\ pc = "interner"
    /\ errors = <<>>
    /\ semanticInfo = NewSemanticInfo(<<>>)
    /\ emitted = 0
    /\ blockStack = <<>>
    /\ entryOf = EmptyMap
    /\ lowered = NoLowered
    /\ varsBefore = EmptyMap
    /\ removedBlocks = {}
    /\ serialized = FALSE
    /\ checker = NewChecker(<<>>)
    /\ printed = Printed(FALSE, NewPrinter)
    /\ selector = NoSelector
    /\ interner = NewTypeInterner
    /\ dom = NoDomInfo

internerOthers == <<module, heap, ret, abort, lastOp, internLog, unit, pc, errors, semanticInfo, emitted,
                    blockStack, entryOf, lowered, varsBefore, removedBlocks, serialized, checker, printed,
                    selector, dom>>

Request(in) ==
    /\ pc = "interner"
    /\ Len(interner.log) < MaxRequests
    /\ interner' = in
    /\ UNCHANGED internerOthers

CallInternFuncType ==
    \E args \in {<<>>} \cup {<<t>> : t \in DOMAIN interner.heap} :
        Request(TypeInterner_InternFuncType(interner, args, <<>>))

CallInternArrayType ==
    \E length \in ArrayLengths, t \in DOMAIN interner.heap :
        Request(TypeInterner_InternArrayType(interner, length, t))

CallInternTupleType ==
    \E t \in DOMAIN interner.heap :
        Request(TypeInterner_InternTupleType(interner, <<t>>))

CallInternStructType ==
    \E name \in Names, t \in DOMAIN interner.heap :
        Request(TypeInterner_InternStructType(interner, <<name>>, <<t>>))

CallInternStrongTypeAlias ==
    \E name \in Names, t \in DOMAIN interner.heap :
        Request(TypeInterner_InternStrongTypeAlias(interner, name, t))

NextInterner ==
    \/ CallInternFuncType
    \/ CallInternArrayType
    \/ CallInternTupleType
    \/ CallInternStructType
    \/ CallInternStrongTypeAlias

SpecInterner == InitInterner /\ [][NextInterner]_vars

\* ------------------------------------------------------------------------
\* Specification of the dominators: BuildDomInfo on the CFG of a function
\* ------------------------------------------------------------------------

\* most blocks of the function
MaxBlocks == 3

\* the successor lists of a block of a function of n blocks: those of a
\* return, of a branch and of a conditional branch
SuccessorLists(n) ==
    {<<>>} \cup {<<a>> : a \in 1..n} \cup {p \in (1..n) \X (1..n) : p[1] # p[2]}

\* the orders in which the iteration over a map may come to its blocks
RECURSIVE Orders(_)
Orders(blocks) ==
    IF blocks = {} THEN {<<>>}
    ELSE UNION {{<<b>> \o r : r \in Orders(blocks \ {b})} : b \in blocks}

InitDom ==
    /\ module = NewModule
    /\ heap = <<>>
    /\ ret = 0
    /\ abort = ""
    /\ lastOp = NoOp
    /\ internLog = EmptyMap
    /\ unit = <<>>
    /\ pc = "dom"
    /\ errors = <<>>
    /\ semanticInfo = NewSemanticInfo(<<>>)
    /\ emitted = 0
    /\ blockStack = <<>>
    /\ entryOf = EmptyMap
    /\ lowered = NoLowered
    /\ varsBefore = EmptyMap
    /\ removedBlocks = {}
    /\ serialized = FALSE
    /\ checker = NewChecker(<<>>)
    /\ printed = Printed(FALSE, NewPrinter)
    /\ selector = NoSelector
    /\ interner = NoTypeInterner
    /\ \E n \in 1..MaxBlocks : \E succs \in [1..n -> SuccessorLists(n)] : dom = NewDomInfo(succs)

\* BuildDomInfo on the CFG; buildDomTimestamps iterates over the IDoms map
CallBuildDomInfo ==
    /\ pc = "dom"
    /\ dom.pc = "cfg"
    /\ Then(buildImmediateDominators(buildReversePostOrder(dom)),
            LAMBDA d : \E order \in Orders(DOMAIN d.IDoms) :
                          dom' = [BuildDomInfoTimestamps(d, order) EXCEPT !.pc = "done"])
    /\ UNCHANGED <<module, heap, ret, abort, lastOp, internLog, unit, pc, errors, semanticInfo, emitted,
                   blockStack, entryOf, lowered, varsBefore, removedBlocks, serialized, checker, printed,
                   selector, interner>>

SpecDom == InitDom /\ [][CallBuildDomInfo]_vars

\* ------------------------------------------------------------------------
\* Specification of the scopes: Check on a file whose functions may have a
\* parameter
\* ------------------------------------------------------------------------

\* most global declarations of the file
MaxScopeDecls == 2

\* the function bodies: empty, or one call statement
ScopeBodies == {<<>>} \cup {<<m>> : m \in Names}

ScopeDecls ==
    {GlobalDecl("const", n, r) : n \in Names, r \in ScopeBodies} \cup
    {GlobalDecl("type", n, <<m>>) : n \in Names, m \in Names \cup {"int"}} \cup
    {ParamFuncDecl(n, p, r) : n \in Names, p \in ScopeBodies, r \in ScopeBodies}

InitScopes ==
    /\ module = NewModule
    /\ heap = <<>>
    /\ ret = 0
    /\ abort = ""
    /\ lastOp = NoOp
    /\ internLog = EmptyMap
    /\ unit = <<>>
    /\ pc = "checker"
    /\ errors = <<>>
    /\ semanticInfo = NewSemanticInfo(<<>>)
    /\ emitted = 0
    /\ blockStack = <<>>
    /\ entryOf = EmptyMap
    /\ lowered = NoLowered
    /\ varsBefore = EmptyMap
    /\ removedBlocks = {}
    /\ serialized = FALSE
    /\ printed = Printed(FALSE, NewPrinter)
    /\ selector = NoSelector
    /\ interner = NoTypeInterner
    /\ dom = NoDomInfo
    /\ \E n \in 0..MaxScopeDecls : \E decls \in [1..n -> ScopeDecls] : checker = NewChecker(decls)

SpecScopes == InitScopes /\ [][NextChecker]_vars

\* ------------------------------------------------------------------------
\* Claims on the checker
\* ------------------------------------------------------------------------

\* C11: a call of resolveSymbol on a symbol whose state is Resolving appends
\* exactly one error to the errors of the file, at the range of that symbol
\* and with "cyclic dependency" in its message, and returns a TypeAndValue
\* of mode AddressModeInvalid without touching the symbol.
C11_CyclicDependencyError ==
    [][(/\ pc = "checker"
        /\ checker.stack # <<>>
        /\ Top(checker).pc = "enter"
        /\ checker.state[Top(checker).sym] = "ResolveStateResolving")
       => (/\ Len(checker'.errors) = Len(checker.errors) + 1
           /\ SubSeq(checker'.errors, 1, Len(checker.errors)) = checker.errors
           /\ checker'.errors[Len(checker'.errors)].range = Top(checker).sym
           /\ \E k \in DOMAIN checker'.errors[Len(checker'.errors)].msg :
                 checker'.errors[Len(checker'.errors)].msg[k] = " has a cyclic dependency"
           /\ checker'.tavHeap[checker'.ret] = invalidType
           /\ checker'.stack = SubSeq(checker.stack, 1, Len(checker.stack) - 1)
           /\ checker'.state = checker.state)]_vars

\* a call of resolveSymbol has found its symbol Resolving
C11_Witness ==
    /\ pc = "checker"
    /\ checker.lastCall.state = "ResolveStateResolving"
    /\ checker.tavHeap[checker.ret] = invalidType

\* the order of the resolve states
StateRank(r) ==
    CASE r = "ResolveStateUnresolved" -> 0
      [] r = "ResolveStateResolving" -> 1
      [] r = "ResolveStateResolved" -> 2

\* C12: no step of a check moves the resolve state of a symbol backwards
\* along Unresolved, Resolving, Resolved; a Resolved symbol stays Resolved.
C12_ResolveStateForward ==
    [][\A sym \in DOMAIN checker.state :
          StateRank(checker'.state[sym]) >= StateRank(checker.state[sym])]_vars

\* resolveSymbol has been called on a symbol that was Resolved already, and
\* another symbol is still Resolving
C12_Witness ==
    /\ pc = "checker"
    /\ checker.lastCall.state = "ResolveStateResolved"
    /\ checker.state[checker.lastCall.sym] = "ResolveStateResolved"
    /\ \E sym \in DOMAIN checker.state : checker.state[sym] = "ResolveStateResolving"

\* C13: Check returns for every file of global declarations, those whose
\* initialisers or types refer to each other in a cycle and those whose
\* functions call themselves or each other included.
C13_CheckTerminates ==
    <>(checker.pc = "done")

\* the symbol a declaration refers to by its k-th name, 0 when undeclared
Target(i, k) == ShallowFind(checker.Scopes[0], checker.decls[i].refs[k])

\* Check has returned for a file in which a function calls itself or another
\* function that calls it back, or in which a cycle has been reported
C13_Witness ==
    /\ pc = "checker"
    /\ checker.pc = "done"
    /\ \/ \E e \in Range(checker.errors) : \E k \in DOMAIN e.msg : e.msg[k] = " has a cyclic dependency"
       \/ \E i, j \in Range(checker.Scopes[0].Symbols) :
             /\ checker.decls[i].kind = "func" /\ checker.decls[j].kind = "func"
             /\ checker.decls[i].refs # <<>> /\ checker.decls[j].refs # <<>>
             /\ Target(i, 1) = j /\ Target(j, 1) = i

\* the global symbols a global symbol refers to
DependsOn(i) ==
    {Target(i, k) : k \in DOMAIN checker.decls[i].refs} \ {0}

RECURSIVE DependsOnClosure(_)
DependsOnClosure(S) ==
    IF UNION {DependsOn(i) : i \in S} \subseteq S THEN S
    ELSE DependsOnClosure(S \cup UNION {DependsOn(i) : i \in S})

NoCyclicDependencies ==
    \A i \in Range(checker.Scopes[0].Symbols) : i \notin DependsOnClosure(DependsOn(i))

NoForwardReferences ==
    \A i \in Range(checker.Scopes[0].Symbols) : \A j \in DependsOn(i) : j <= i

\* C14 as stated: after Check on global declarations without cyclic
\* dependencies, ReachableSymbols lists the global symbols in the order of
\* their declarations.
C14_ReachableInDeclarationOrder ==
    (pc = "checker" /\ checker.pc = "done" /\ NoCyclicDependencies)
        => checker.ReachableSymbols = checker.Scopes[0].Symbols

\* C14, amended: after Check on global declarations none of which refers to
\* a global symbol declared after it, ReachableSymbols lists the global
\* symbols in the order of their declarations.
C14_ReachableInDeclarationOrderWithoutForwardReferences ==
    (pc = "checker" /\ checker.pc = "done" /\ NoForwardReferences)
        => checker.ReachableSymbols = checker.Scopes[0].Symbols

\* Check has returned for two global symbols, the second of which refers to
\* the first
C14_Witness ==
    /\ pc = "checker"
    /\ checker.pc = "done"
    /\ NoForwardReferences
    /\ Len(checker.ReachableSymbols) = 2
    /\ checker.ReachableSymbols[1] \in DependsOn(checker.ReachableSymbols[2])

\* the declarations shallowWalk has handed to addSymbol
Walked ==
    IF checker.pc = "shallowWalk" THEN 1..(checker.next - 1) ELSE DOMAIN checker.decls

\* the first declaration of the name of declaration i
FirstDeclaration(i) ==
    CHOOSE j \in 1..i : /\ checker.decls[j].name = checker.decls[i].name
                        /\ \A k \in 1..(j - 1) : checker.decls[k].name # checker.decls[i].name

RedefinitionError(i) ==
    NewError(i, <<"symbol '", checker.decls[i].name, "' redefinition">>,
             <<[range |-> FirstDeclaration(i), msg |-> "first declared here"]>>)

\* C15: a declaration of a name the global scope holds already leaves one
\* error, the redefinition error with a note at the range of the first
\* declaration of the name, and leaves the scope as it was: the name is
\* bound to its first declaration and the symbols of the scope are the
\* first declarations, in their order.
C15_RedefinitionKeepsFirst ==
    pc = "checker" =>
        /\ \A i \in Walked :
              /\ ShallowFind(checker.Scopes[0], checker.decls[i].name) = FirstDeclaration(i)
              /\ Cardinality({k \in DOMAIN checker.errors : checker.errors[k].range = i
                                 /\ checker.errors[k].msg[1] = "symbol '"})
                    = IF FirstDeclaration(i) = i THEN 0 ELSE 1
              /\ FirstDeclaration(i) # i => RedefinitionError(i) \in Range(checker.errors)
        /\ Range(checker.Scopes[0].Symbols) = {i \in Walked : FirstDeclaration(i) = i}
        /\ \A p, q \in DOMAIN checker.Scopes[0].Symbols :
              p < q => checker.Scopes[0].Symbols[p] < checker.Scopes[0].Symbols[q]
        /\ \A n \in DOMAIN checker.Scopes[0].Table :
              checker.decls[checker.Scopes[0].Symbols[checker.Scopes[0].Table[n] + 1]].name = n

\* shallowWalk has handed a second declaration of a name to addSymbol
C15_Witness ==
    /\ pc = "checker"
    /\ \E i \in Walked : FirstDeclaration(i) # i

\* ------------------------------------------------------------------------
\* Claims on the serializers
\* ------------------------------------------------------------------------

\* the IDs among the operands of one emitted instruction
OperandIDs(line) == {line.operands[i].id : i \in {j \in 1..Len(line.operands) : line.operands[j].tag = "id"}}

\* what was written, instruction by instruction: the opcode and the operand IDs
InstructionsOf(out) == [i \in 1..Len(out) |-> <<out[i].op, OperandIDs(out[i])>>]

\* emitSPIRV has run a printer on the module that RewriteIR returned
Serialized == pc = "done" /\ serialized /\ abort = ""

\* the outcome of the printer that emitSPIRV did not choose, on the same module
OtherPrinter == IF printed.binary THEN TextPrinter_Emit(World) ELSE BinaryPrinter_Emit(World)

\* C16: on every lowered module the text printer and the binary printer
\* write the same sequence of instructions, each with the same opcode and
\* the same operand IDs.
C16_PrintersEmitSameInstructions ==
    Serialized => InstructionsOf(printed.out) = InstructionsOf(OtherPrinter.out)

\* the part of the output an instruction belongs to: 1 the capabilities,
\* 2 the memory model, 3 the types, 4 the constants, 5 the functions
Section(line) ==
    CASE line.op = "OpCapability" -> 1
      [] line.op = "OpMemoryModel" -> 2
      [] line.op \in {"OpTypeVoid", "OpTypeBool", "OpTypeInt", "OpTypeFloat",
                      "OpTypePointer", "OpTypeFunction"} -> 3
      [] line.op \in {"OpConstant", "OpConstantTrue", "OpConstantFalse"} -> 4
      [] OTHER -> 5

\* the ID an instruction defines: the text printer writes it first, the
\* binary printer after the result type when there is one
DefinedID(line) ==
    IF printed.binary /\ line.op \in {"OpConstant", "OpConstantTrue", "OpConstantFalse", "OpFunction"}
    THEN line.operands[2].id
    ELSE line.operands[1].id

\* the IDs defined by the instructions of printed.out whose opcode is in ops, in order
DefinedIDs(ops) ==
    LET at == {i \in 1..Len(printed.out) : printed.out[i].op \in ops}
        nth(k) == CHOOSE i \in at : Cardinality({j \in at : j < i}) = k - 1
    IN [k \in 1..Cardinality(at) |-> DefinedID(printed.out[nth(k)])]

StrictlyIncreasing(ids) == \A i, j \in 1..Len(ids) : i < j => ids[i] < ids[j]

IDsOfKind(kinds) == {heap[a].ObjectID : a \in ObjectsOfKind(kinds)}

BlocksOfFunctionOf(b) == Range(heap[heap[b].Function].Blocks)

\* block b is in its function and in the object table of the module
Present(b) ==
    /\ b \in BlocksOfFunctionOf(b)
    /\ GetObject(module, heap[b].ObjectID) = b

\* the if with merge block m made exactly three objects, its three blocks
ThreeNewBlocks(m) ==
    /\ {lowered.ifs[m].trueBlock, lowered.ifs[m].falseBlock, m}
          = (lowered.ifs[m].objects + 1)..(lowered.ifs[m].objects + 3)
    /\ lowered.ifs[m].trueBlock < lowered.ifs[m].falseBlock
    /\ lowered.ifs[m].falseBlock < m
    /\ \A b \in {lowered.ifs[m].trueBlock, lowered.ifs[m].falseBlock, m} : heap[b].kind = "Block"

\* the block that was current ends with SelectionMerge(merge) and then
\* BranchConditional(cond, true, false)
EndsWithSelection(m) ==
    LET e == lowered.ifs[m]
        is == heap[e.block].Instructions
    IN /\ Len(is) >= 2
       /\ is[Len(is) - 1] = Ins("OpSelectionMerge", <<heap[m].ObjectID>>)
       /\ is[Len(is)] = Ins("OpBranchConditional", <<heap[e.cond].ObjectID,
                                                     heap[e.trueBlock].ObjectID,
                                                     heap[e.falseBlock].ObjectID>>)

\* C18: an if in reachable code is lowered to exactly three new blocks and
\* to SelectionMerge(merge) followed by BranchConditional(cond, true, false)
\* as the last two instructions of the block that was current; after the
\* rewrite the three blocks are in the module and each ends in a terminator.
C18_IfLowersToThreeBlocks ==
    /\ Lowered => \A m \in DOMAIN lowered.ifs : ThreeNewBlocks(m) /\ EndsWithSelection(m)
    /\ Rewritten =>
          \A m \in DOMAIN lowered.ifs :
              Present(lowered.ifs[m].block) =>
                  \A b \in {lowered.ifs[m].trueBlock, lowered.ifs[m].falseBlock, m} :
                      Present(b) /\ IsTerminated(heap, b)

\* after the rewrite, an if whose two branches return: its merge block has
\* no Branch to it and is in the module with a terminator
C18_Witness ==
    /\ Rewritten
    /\ \E m \in DOMAIN lowered.ifs :
          /\ Present(lowered.ifs[m].block)
          /\ Present(m)
          /\ IsTerminated(heap, m)
          /\ \A b \in BlocksOfFunctionOf(m) :
                Ins("OpBranch", <<heap[m].ObjectID>>) \notin Range(heap[b].Instructions)

\* block b ends with Branch(merge block m)
EndsWithBranchTo(b, m) ==
    /\ Len(heap[b].Instructions) > 0
    /\ LastInstruction(b) = Ins("OpBranch", <<heap[m].ObjectID>>)

\* C19: once an if is lowered, whatever statements its branches hold, the
\* block in which the emission of each branch body ended ends with
\* Branch(merge block of that if), unless it ended in a terminator already.
C19_BranchBodiesReachMerge ==
    pc \in {"emitting", "pulled", "pruned"} =>
        \A m \in DOMAIN lowered.ifs :
            /\ ~lowered.ifs[m].trueEndTerminated => EndsWithBranchTo(lowered.ifs[m].trueEnd, m)
            /\ ~lowered.ifs[m].falseEndTerminated => EndsWithBranchTo(lowered.ifs[m].falseEnd, m)

\* the blocks of the heap
Blocks == {b \in 1..Len(heap) : heap[b].kind = "Block"}

\* block b is in the module: in the list of its function or in the object table
InModule(b) ==
    \/ b \in BlocksOfFunctionOf(b) /\ heap[b].Function \in Range(module.Objects)
    \/ b \in Range(module.Objects)

\* the instruction d.ins, pushed to d.block, is in a block of the module;
\* an OpVariable, which names the variable it makes, is looked for in
\* every block
InstructionInModule(d) ==
    \E b \in Blocks :
        /\ InModule(b)
        /\ d.ins \in Range(heap[b].Instructions)
        /\ b = d.block \/ d.ins.op = "OpVariable"

\* C20: the block that is current after a return is lowered is a new
\* block with no predecessor, and no instruction lowered from a statement
\* that follows the return in its statement list is in the module after
\* RewriteIR.
C20_CodeAfterReturnIsPruned ==
    /\ Lowered =>
          \A r \in lowered.returns :
              /\ r \in Blocks
              /\ r \notin {entryOf[f] : f \in DOMAIN entryOf}
              /\ \A b \in Blocks : heap[r].ObjectID \notin Range(BlockSuccessorIDs(heap, b))
    /\ Rewritten => \A d \in lowered.dead : ~InstructionInModule(d)

\* C28: during lowering and after RewriteIR a block holds at most one
\* terminator, and the terminator it holds is its last instruction: nothing
\* is appended to a block after a terminator.
C28_TerminatorIsLast ==
    \A b \in Blocks : \A i \in 1..(Len(heap[b].Instructions) - 1) :
        ~IsTerminator(heap[b].Instructions[i].op)

\* statements were lowered after a return inside a branch of an if, and
\* RewriteIR has closed the blocks that were left open
C28_Witness ==
    /\ Rewritten
    /\ lowered.dead # {}
    /\ DOMAIN lowered.ifs # {}
    /\ \E b \in Blocks : Len(heap[b].Instructions) > 2 /\ IsTerminated(heap, b)

\* ------------------------------------------------------------------------
\* Claims on the control-flow graph
\* ------------------------------------------------------------------------

\* the IDs an instruction names as branch targets
TargetIDs(ins) ==
    CASE ins.op = "OpBranch" -> {ins.ids[1]}
      [] ins.op = "OpBranchConditional" -> {ins.ids[2], ins.ids[3]}
      [] ins.op = "OpSwitch" -> {ins.ids[k] : k \in 2..Len(ins.ids)}
      [] OTHER -> {}

\* the merge and continue blocks a merge instruction names
MergeIDs(ins) ==
    CASE ins.op = "OpSelectionMerge" -> {ins.ids[1]}
      [] ins.op = "OpLoopMerge" -> {ins.ids[1], ins.ids[2]}
      [] OTHER -> {}

\* what the claim says the successors of block b are
ExpectedSuccessors(b) ==
    LET is == heap[b].Instructions
        n == Len(is)
        ids == IF n = 0 THEN {}
               ELSE TargetIDs(is[n]) \cup MergeIDs(is[n]) \cup (IF n > 1 THEN MergeIDs(is[n - 1]) ELSE {})
    IN {t \in Blocks : heap[t].ObjectID \in ids}

\* C22: in the CFG that removeUnreachableBlocks builds for a function, the
\* successors of a block are exactly the blocks its last instruction names
\* as targets plus, when the instruction before the last is a SelectionMerge
\* or a LoopMerge, the merge and continue blocks of that instruction.
C22_CFGSuccessors ==
    pc = "pulled" =>
        \A f \in FunctionsOfModule :
            (Len(heap[f].Blocks) > 1 /\ ~CFGPanics(World, f)) =>
                \A b \in Range(heap[f].Blocks) :
                    Range(Successors(BuildCFG(World, f), b)) = ExpectedSuccessors(b)

\* the CFG of a function with an if: a block with three successors (the
\* two labels and the merge block), one with one and one with none
C22_Witness ==
    /\ pc = "pulled"
    /\ \E f \in FunctionsOfModule :
          /\ ~CFGPanics(World, f)
          /\ \E b \in Range(heap[f].Blocks) : Len(Successors(BuildCFG(World, f), b)) = 3
          /\ \E b \in Range(heap[f].Blocks) : Len(Successors(BuildCFG(World, f), b)) = 1
          /\ \E b \in Range(heap[f].Blocks) : Len(Successors(BuildCFG(World, f), b)) = 0

\* ------------------------------------------------------------------------
\* Claims on the types of resolved symbols
\* ------------------------------------------------------------------------

Resolved(sym) == checker.state[sym] = "ResolveStateResolved"

\* C26: no step of a check changes the TypeAndValue recorded for a symbol
\* that is Resolved, and the type recorded for a Resolved type symbol is an
\* alias that has the name of the symbol.
C26_ResolvedTypeIsStable ==
    [][\A sym \in DOMAIN checker.state :
          Resolved(sym) =>
              /\ checker'.typeOf[sym] = checker.typeOf[sym]
              /\ checker'.tavHeap[checker.typeOf[sym]] = checker.tavHeap[checker.typeOf[sym]]
              /\ checker.decls[sym].kind = "type" =>
                    /\ checker.tavHeap[checker.typeOf[sym]].Type.name = "alias"
                    /\ checker.tavHeap[checker.typeOf[sym]].Type.Name = checker.decls[sym].name]_vars

\* ------------------------------------------------------------------------
\* Claims on the lowering of local variables
\* ------------------------------------------------------------------------

\* instruction i of the list is its k-th OpVariable
IsNthVariable(is, i, k) ==
    /\ is[i].op = "OpVariable"
    /\ Cardinality({j \in 1..i : is[j].op = "OpVariable"}) = k

\* the variable of instruction i has a constant initialiser, or a later
\* instruction of the list stores into it
Initialised(is, i) ==
    \/ is[i].ids[4] # 0
    \/ \E j \in (i + 1)..Len(is) : is[j].op = "OpStore" /\ is[j].ids[1] = is[i].ids[2]

\* C21: in the IR emitted for a function, the Variable instruction of every
\* local variable declared with an initialiser carries a constant
\* initialiser or is followed in its block by a Store into the variable.
C21_LocalsAreInitialised ==
    (pc = "emitting" /\ emitted = Len(unit) /\ abort = "") =>
        \A f \in FunctionsOfModule :
            \A k \in 1..Len(unit[1].Body) :
                unit[1].Body[k].init # "none" =>
                    \E i \in 1..Len(heap[heap[f].Blocks[1]].Instructions) :
                        /\ IsNthVariable(heap[heap[f].Blocks[1]].Instructions, i, k)
                        /\ Initialised(heap[heap[f].Blocks[1]].Instructions, i)

\* ------------------------------------------------------------------------
\* Claims on checking a unit twice
\* ------------------------------------------------------------------------

\* C24: when a second Check of the unit returns, the SemanticInfo says what
\* it said when the first returned: the same type for each symbol, the same
\* scopes and the same sequence of reachable symbols.
C24_CheckIsIdempotent ==
    (pc = "checker" /\ checker.pc = "done" /\ checker.round = 2) =>
        SemanticInfoOf(checker) = checker.first

\* the second Check has returned for a unit in which a declaration is
\* reachable and another was reported
C24_Witness ==
    /\ pc = "checker"
    /\ checker.pc = "done"
    /\ checker.round = 2
    /\ checker.ReachableSymbols # <<>>
    /\ checker.errors # <<>>
    /\ \E sym \in DOMAIN checker.typeOf :
          /\ checker.typeOf[sym] # 0
          /\ checker.tavHeap[checker.typeOf[sym]].Type.name = "alias"

\* ------------------------------------------------------------------------
\* Claims on the scopes of global declarations
\* ------------------------------------------------------------------------

\* the symbol a name stands for inside global declaration i: the parameter
\* of i that has the name, the symbol of the global scope otherwise
LexicalFind(i, name) ==
    IF name \in Range(checker.decls[i].params) THEN ParamSymbol(checker.decls, i)
    ELSE ShallowFind(checker.Scopes[0], name)

\* C27: the symbol found for an identifier of a global declaration is the
\* one the declaration's own parameters and the global scope give, from
\* wherever the resolution of the declaration was called; the parameters of
\* another function are never found.
C27_LookupIsLexical ==
    checker.lastFind.in # 0 =>
        checker.lastFind.found = LexicalFind(checker.lastFind.in, checker.lastFind.name)

\* ------------------------------------------------------------------------
\* Claims on selectors
\* ------------------------------------------------------------------------

SwizzleStyles == {<<"x", "y", "z", "w">>, <<"r", "g", "b", "a">>, <<"s", "t", "q", "p">>}

\* the selector has 1 to 4 characters, all of one style and each at an
\* ordinal below the width
IsSwizzle(swizzle, width) ==
    /\ Len(swizzle) \in 1..4
    /\ \E style \in SwizzleStyles :
          \A k \in 1..Len(swizzle) : \E o \in 1..width : style[o] = swizzle[k]

\* C25: a selector of a vector resolves without an error to a computed
\* value exactly when it has 1 to 4 characters, all of one of xyzw, rgba and
\* stqp and each at an ordinal below the width of the vector; any other
\* selector is reported as an invalid swizzle and resolves to an invalid
\* TypeAndValue.
C25_SwizzleAccepted ==
    selector.pc = "done" =>
        IF IsSwizzle(selector.swizzle, selector.base.Width)
        THEN /\ selector.abort = ""
             /\ selector.errors = <<>>
             /\ selector.ret.Mode = "AddressModeComputedValue"
        ELSE /\ selector.abort = ""
             /\ Len(selector.errors) = 1
             /\ selector.errors[1][1] = "invalid swizzle '"
             /\ selector.ret.Mode = "AddressModeInvalid"

\* ------------------------------------------------------------------------
\* Claims on the type interner
\* ------------------------------------------------------------------------

CompositeKinds == {"func", "array", "tuple", "struct"}

\* C23: two requests for a composite type return the same object exactly
\* when the requested types are structurally equal (the same kind, length
\* and field names, made of the same type objects), and a request for an
\* alias returns an object no other request returns.
C23_InternedIffStructurallyEqual ==
    \A i, j \in DOMAIN interner.log :
        /\ (interner.log[i].req.kind \in CompositeKinds /\ interner.log[j].req.kind \in CompositeKinds) =>
              ((interner.log[i].ret = interner.log[j].ret) <=> (interner.log[i].req = interner.log[j].req))
        /\ (interner.log[i].req.kind = "strongalias" /\ i # j) =>
              interner.log[i].ret # interner.log[j].ret

\* ------------------------------------------------------------------------
\* Claims on the dominators
\* ------------------------------------------------------------------------

\* the blocks a path from the blocks of from reaches without entering avoid
RECURSIVE ReachAvoiding(_, _, _)
ReachAvoiding(succs, from, avoid) ==
    IF UNION {Range(succs[b]) : b \in from} \subseteq (from \cup avoid) THEN from
    ELSE ReachAvoiding(succs, from \cup (UNION {Range(succs[b]) : b \in from} \ avoid), avoid)

ReachableFromEntry(succs) == ReachAvoiding(succs, {1}, {})

\* every path from the entry to b passes through a
OnEveryPath(succs, a, b) ==
    a = b \/ a = 1 \/ b \notin ReachAvoiding(succs, {1}, {a})

\* C30: BuildDomInfo returns for every CFG, and for blocks a and b that
\* are reachable from the entry Dominates(a, b) is true exactly when every
\* path from the entry to b passes through a.
C30_DominatesIsPathDominance ==
    dom.pc = "done" =>
        /\ dom.abort = ""
        /\ \A a, b \in ReachableFromEntry(dom.succs) :
              Dominates(dom, a, b) <=> OnEveryPath(dom.succs, a, b)

\* BuildDomInfo has returned for a CFG whose entry branches into a loop
\* that has two entries
C30_Witness ==
    /\ dom.pc = "done"
    /\ dom.abort = ""
    /\ dom.passes >= 2
    /\ Len(dom.succs) = 3
    /\ Range(dom.succs[1]) = {2, 3}
    /\ 3 \in Range(dom.succs[2])
    /\ 2 \in Range(dom.succs[3])
    /\ ~Dominates(dom, 2, 3)
    /\ ~Dominates(dom, 3, 2)

====
